---- MODULE Spec2Model ----
(***************************************************************************)
(* Embedded MCP client and tool bridge (agents/mcp-embedded), with the     *)
(* `mcp` CLI commands that edit the server overrides of the config file    *)
(* and the Temporal client that starts heartbeat workflows.                *)
(*                                                                         *)
(* One McpStdioClient owns one spawned child process.  The JavaScript      *)
(* event loop runs one handler at a time: every action below is one        *)
(* macrotask (an I/O event, a timer, an API call) or one promise           *)
(* continuation.  Continuations run before the next macrotask, which the   *)
(* guard ~MicrotaskPending expresses.                                      *)
(***************************************************************************)
EXTENDS Integers, Sequences, FiniteSets, TLC

\* ---- bounds -------------------------------------------------------------
MaxToolCalls == 1      \* tool executions that reach request() and take an id
MaxCleanupCalls == 2   \* invocations of the aggregate cleanup()
MaxDirectCloses == 2   \* close() invocations by a direct caller (SpecClient)
MaxEntries == 2        \* tool entries registered in a behaviour of SpecNames
MaxChunk == 60         \* bytes of the longest chunk a 'data' event delivers
MaxRecords == 3        \* records of the snapshot's mcpServers list
MaxSegment == 4        \* characters of a name given to the normalisation

\* ---- domains ------------------------------------------------------------
Framings == {"line", "header"}
\* initialize + tools/list + tool calls + one shutdown per close() call
IdRange == 1..(2 + MaxToolCalls + MaxDirectCloses)
ListResults == {"malformed", "none", "one"}
ExitSuffixes == {"exit 0", "signal SIGTERM"}

\* The params of a request or notification: tools/call carries the remote
\* tool name and the arguments; the params of the other methods are fixed and
\* not modelled.
NoParams == [name |-> <<>>, arguments |-> ""]

NoReq == [method |-> "", outcome |-> "unissued", ctx |-> "", arg |-> NoParams,
          result |-> ""]
NoLast == [op |-> "init", c |-> <<"", "">>, id |-> 0, in |-> "", res |-> ""]

VARIABLES
  cl,            \* cl[c]: the McpStdioClient of server c[1] under framing c[2]
  specs,         \* the normalized server specs of the snapshot, in order
  mainPc,        \* position of createEmbeddedMcpTools
  idx,           \* index into specs of the server being discovered
  framing,       \* framing of the launch attempt in progress
  attempts,      \* launchWithFraming calls so far: <<server, framing, spawn outcome>>
  clients,       \* the clients array of createEmbeddedMcpTools
  tools,         \* the tools array: [c, entry, name]
  usedToolNames, \* the usedToolNames set of createEmbeddedMcpTools
  calls,         \* invocations of execute() that reached callTool: [t, args, id]
  cleanedUp,     \* the cleanedUp flag of the handle
  cleanupCalls,  \* invocations of cleanup(): [pc, pos, cc]
  last,          \* the handler that ran last and what it returned
  cfg,           \* the config file, as the mcp CLI reads and writes it
  temporal,      \* the Temporal client and cluster: [taskQueue, runs]
  applied        \* the last call of a function outside the client: [fn, arg, out]

\* The state outside the embedded MCP client.
hostVars == <<cfg, temporal, applied>>

vars == <<cl, specs, mainPc, idx, framing, attempts, clients, tools,
          usedToolNames, calls, cleanedUp, cleanupCalls, last, hostVars>>

\* The state of the embedded MCP client and of the tool bridge.
mcpVars == <<cl, specs, mainPc, idx, framing, attempts, clients, tools,
             usedToolNames, calls, cleanedUp, cleanupCalls, last>>

\* A connected Temporal client and a cluster without workflows;
\* runs[workflowId] are the executions started under that id.
NoTemporal == [taskQueue |-> "openclaw-tasks", runs |-> <<>>]

\* No CLI command has written an override, no workflow was started and no
\* function outside the client was called.
HostIdle ==
  /\ cfg = [otherSkills |-> FALSE, mcpServers |-> <<>>]
  /\ temporal = NoTemporal
  /\ applied = [fn |-> "", arg |-> <<>>, out |-> <<>>]

\* ---- McpStdioClient: the object ------------------------------------------
\* State of a client that has not been constructed (no process spawned).
NewClient ==
  [proc |-> "none",            \* none | running | spawnfail | exited
   spawnErrPending |-> FALSE,  \* the 'error' event of a failed spawn is queued
   closed |-> FALSE,
   nextRequestId |-> 1,
   pending |-> {},             \* keys of the pending map
   timers |-> {},              \* ids whose timeout timer is armed
   listeners |-> {},           \* ids whose abort listener is attached
   reqs |-> [i \in IdRange |-> NoReq],  \* the promise of each request() call
   childOps |-> <<>>,          \* stdin.write / stdin.end / kill calls, in order
   stdinDestroyed |-> FALSE,
   killed |-> FALSE,           \* child.killed
   closeCalls |-> <<>>,        \* invocations of close(): [pc, id, by]
   stdout |-> <<>>,            \* the bytes the process writes to its stdout
   stdoutRead |-> 0,           \* how many of them 'data' events have delivered
   stdoutBuffer |-> <<>>,
   received |-> <<>>]          \* messages handed to handleJsonRpcMessage

WriteOp(method, id, arg) ==
  [op |-> "write", method |-> method, id |-> id, arg |-> arg, ok |-> TRUE]
EndOp == [op |-> "end", method |-> "", id |-> 0, arg |-> NoParams, ok |-> TRUE]
KillOp(sig, delivered) ==
  [op |-> "kill", method |-> sig, id |-> 0, arg |-> NoParams,
   ok |-> delivered]

\* A promise whose last resolve/reject call decides.
settle_lastWins(r, id, o, ctx, result) ==
  [r EXCEPT !.reqs[id].outcome = o, !.reqs[id].ctx = ctx,
            !.reqs[id].result = result]

\* A promise settles once: resolve/reject of a settled promise is a no-op.
settle(r, id, o, ctx, result) ==
  IF r.reqs[id].outcome = "waiting"
  THEN [r EXCEPT !.reqs[id].outcome = o, !.reqs[id].ctx = ctx,
                 !.reqs[id].result = result]
  ELSE r

\* sendMessage: throws (ok = FALSE) when closed or stdin is destroyed.
sendMessage(r, method, id, arg) ==
  IF r.closed \/ r.stdinDestroyed
  THEN [ok |-> FALSE, r |-> r]
  ELSE [ok |-> TRUE,
        r |-> [r EXCEPT !.childOps = Append(@, WriteOp(method, id, arg))]]

sendNotification(r, method) == sendMessage(r, method, 0, NoParams)

\* onAbort without clearTimeout.
onAbort_keepTimer(r, id) ==
  settle([r EXCEPT !.pending = @ \ {id}, !.listeners = @ \ {id}],
         id, "aborted", r.reqs[id].method, "")

\* The onAbort closure of request().
onAbort(r, id) ==
  settle([r EXCEPT !.pending = @ \ {id}, !.timers = @ \ {id},
                   !.listeners = @ \ {id}],
         id, "aborted", r.reqs[id].method, "")

\* The timeout callback without pending.delete.
onTimeout_keepEntry(r, id) ==
  settle([r EXCEPT !.timers = @ \ {id}], id, "timeout", r.reqs[id].method, "")

\* A timeout callback that lets the timer pass without rejecting.
onTimeout_noReject(r, id) == [r EXCEPT !.timers = @ \ {id}]

\* The timeout callback of request().
onTimeout(r, id) ==
  settle([r EXCEPT !.pending = @ \ {id}, !.timers = @ \ {id}],
         id, "timeout", r.reqs[id].method, "")

\* request() that takes the counter's value without advancing it.
request_sameId(r, method, arg, sig) ==
  IF r.closed
  THEN [id |-> 0, res |-> "closed", r |-> r]
  ELSE
    LET id == r.nextRequestId
        r1 == [r EXCEPT !.reqs[id] = [NoReq EXCEPT !.method = method,
                                                   !.outcome = "waiting",
                                                   !.arg = arg],
                        !.timers = @ \cup {id}]
    IN IF sig = "aborted"
       THEN [id |-> id, res |-> "aborted", r |-> onAbort(r1, id)]
       ELSE
         LET r2 == [r1 EXCEPT !.listeners =
                                 IF sig = "live" THEN @ \cup {id} ELSE @,
                              !.pending = @ \cup {id}]
             s == sendMessage(r2, method, id, arg)
         IN IF s.ok
            THEN [id |-> id, res |-> "sent", r |-> s.r]
            ELSE [id |-> id, res |-> "sendFailed",
                  r |-> settle([r2 EXCEPT !.pending = @ \ {id},
                                          !.timers = @ \ {id},
                                          !.listeners = @ \ {id}],
                               id, "sendFailed", method, "")]

\* request() that registers and sends before it looks at signal.aborted.
request_lateAbortCheck(r, method, arg, sig) ==
  IF r.closed
  THEN [id |-> 0, res |-> "closed", r |-> r]
  ELSE
    LET id == r.nextRequestId
        r1 == [r EXCEPT !.nextRequestId = id + 1,
                        !.reqs[id] = [NoReq EXCEPT !.method = method,
                                                   !.outcome = "waiting",
                                                   !.arg = arg],
                        !.timers = @ \cup {id},
                        !.pending = @ \cup {id}]
        s == sendMessage(r1, method, id, arg)
    IN IF sig = "aborted"
       THEN [id |-> id, res |-> "aborted", r |-> onAbort(s.r, id)]
       ELSE [id |-> id, res |-> IF s.ok THEN "sent" ELSE "sendFailed",
             r |-> IF s.ok
                   THEN [s.r EXCEPT !.listeners =
                                      IF sig = "live" THEN @ \cup {id} ELSE @]
                   ELSE settle([r1 EXCEPT !.pending = @ \ {id},
                                          !.timers = @ \ {id}],
                               id, "sendFailed", method, "")]

\* request() without the closed check: a closed client fails in sendMessage.
request_noClosedCheck(r, method, arg, sig) ==
  LET id == r.nextRequestId
      r1 == [r EXCEPT !.nextRequestId = id + 1,
                      !.reqs[id] = [NoReq EXCEPT !.method = method,
                                                 !.outcome = "waiting",
                                                 !.arg = arg],
                      !.timers = @ \cup {id}]
  IN IF sig = "aborted"
     THEN [id |-> id, res |-> "aborted", r |-> onAbort(r1, id)]
     ELSE
       LET r2 == [r1 EXCEPT !.listeners =
                               IF sig = "live" THEN @ \cup {id} ELSE @,
                            !.pending = @ \cup {id}]
           s == sendMessage(r2, method, id, arg)
       IN IF s.ok
          THEN [id |-> id, res |-> "sent", r |-> s.r]
          ELSE [id |-> id, res |-> "sendFailed",
                r |-> settle([r2 EXCEPT !.pending = @ \ {id},
                                        !.timers = @ \ {id},
                                        !.listeners = @ \ {id}],
                             id, "sendFailed", method, "")]

\* request() whose catch of a failed sendMessage only rejects.
request_keepEntryOnSendFailure(r, method, arg, sig) ==
  IF r.closed
  THEN [id |-> 0, res |-> "closed", r |-> r]
  ELSE
    LET id == r.nextRequestId
        r1 == [r EXCEPT !.nextRequestId = id + 1,
                        !.reqs[id] = [NoReq EXCEPT !.method = method,
                                                   !.outcome = "waiting",
                                                   !.arg = arg],
                        !.timers = @ \cup {id}]
    IN IF sig = "aborted"
       THEN [id |-> id, res |-> "aborted", r |-> onAbort(r1, id)]
       ELSE
         LET r2 == [r1 EXCEPT !.listeners =
                                 IF sig = "live" THEN @ \cup {id} ELSE @,
                              !.pending = @ \cup {id}]
             s == sendMessage(r2, method, id, arg)
         IN IF s.ok
            THEN [id |-> id, res |-> "sent", r |-> s.r]
            ELSE [id |-> id, res |-> "sendFailed",
                  r |-> settle(r2, id, "sendFailed", method, "")]

\* request(): id = 0 reports the "client is closed" rejection.
\* sig is the caller's AbortSignal: none | live | aborted.
request(r, method, arg, sig) ==
  IF r.closed
  THEN [id |-> 0, res |-> "closed", r |-> r]
  ELSE
    LET id == r.nextRequestId
        r1 == [r EXCEPT !.nextRequestId = id + 1,
                        !.reqs[id] = [NoReq EXCEPT !.method = method,
                                                   !.outcome = "waiting",
                                                   !.arg = arg],
                        !.timers = @ \cup {id}]
    IN IF sig = "aborted"
       THEN [id |-> id, res |-> "aborted", r |-> onAbort(r1, id)]
       ELSE
         LET r2 == [r1 EXCEPT !.listeners =
                                 IF sig = "live" THEN @ \cup {id} ELSE @,
                              !.pending = @ \cup {id}]
             s == sendMessage(r2, method, id, arg)
         IN IF s.ok
            THEN [id |-> id, res |-> "sent", r |-> s.r]
            ELSE [id |-> id, res |-> "sendFailed",
                  r |-> settle([r2 EXCEPT !.pending = @ \ {id},
                                          !.timers = @ \ {id},
                                          !.listeners = @ \ {id}],
                               id, "sendFailed", method, "")]

\* failAllPending without pending.clear().
failAllPending_keepEntries(r, kind, ctx) ==
  [r EXCEPT
     !.timers = @ \ r.pending,
     !.listeners = @ \ r.pending,
     !.reqs = [i \in IdRange |->
                 IF i \in r.pending /\ r.reqs[i].outcome = "waiting"
                 THEN [r.reqs[i] EXCEPT !.outcome = kind, !.ctx = ctx]
                 ELSE r.reqs[i]]]

\* failAllPending: reject every pending entry and clear the map.
failAllPending(r, kind, ctx) ==
  IF r.pending = {}
  THEN r
  ELSE [r EXCEPT
          !.timers = @ \ r.pending,
          !.listeners = @ \ r.pending,
          !.reqs = [i \in IdRange |->
                      IF i \in r.pending /\ r.reqs[i].outcome = "waiting"
                      THEN [r.reqs[i] EXCEPT !.outcome = kind, !.ctx = ctx]
                      ELSE r.reqs[i]],
          !.pending = {}]

\* handleJsonRpcMessage that hands a response to the oldest pending request.
handleJsonRpcMessage_oldestFirst(r, idValue, isError, result) ==
  IF idValue \notin r.pending
  THEN r
  ELSE LET first == CHOOSE i \in r.pending : \A j \in r.pending : i <= j
           r1 == [r EXCEPT !.pending = @ \ {first},
                           !.timers = @ \ {first},
                           !.listeners = @ \ {first}]
       IN IF isError
          THEN settle(r1, first, "remoteError", "remote", "")
          ELSE settle(r1, first, "resolved", "", result)

\* handleJsonRpcMessage that takes a message matching no entry for the
\* response to the oldest pending request.
handleJsonRpcMessage_unmatchedToOldest(r, idValue, isError, result) ==
  LET target == IF idValue \in r.pending \/ r.pending = {}
                THEN idValue
                ELSE CHOOSE i \in r.pending : \A j \in r.pending : i <= j
  IN IF target \notin r.pending
     THEN r
     ELSE LET r1 == [r EXCEPT !.pending = @ \ {target},
                              !.timers = @ \ {target},
                              !.listeners = @ \ {target}]
          IN IF isError
             THEN settle(r1, target, "remoteError", "remote", "")
             ELSE settle(r1, target, "resolved", "", result)

\* handleJsonRpcMessage without pending.delete.
handleJsonRpcMessage_keepEntry(r, idValue, isError, result) ==
  IF idValue \notin r.pending
  THEN r
  ELSE LET r1 == [r EXCEPT !.timers = @ \ {idValue},
                           !.listeners = @ \ {idValue}]
       IN IF isError
          THEN settle(r1, idValue, "remoteError", "remote", "")
          ELSE settle(r1, idValue, "resolved", "", result)

\* handleJsonRpcMessage: idValue = 0 stands for a message without a numeric id.
handleJsonRpcMessage(r, idValue, isError, result) ==
  IF idValue \notin r.pending
  THEN r
  ELSE LET r1 == [r EXCEPT !.pending = @ \ {idValue},
                           !.timers = @ \ {idValue},
                           !.listeners = @ \ {idValue}]
       IN IF isError
          THEN settle(r1, idValue, "remoteError", "remote", "")
          ELSE settle(r1, idValue, "resolved", "", result)

\* The child's 'error' event: the constructor's handler fails all pending
\* requests; every once(child, "exit") promise still being raced rejects.
errorEvent(r, ctx) ==
  LET r1 == failAllPending(r, "procError", ctx)
  IN [r1 EXCEPT !.closeCalls =
        [k \in DOMAIN r1.closeCalls |->
           IF r1.closeCalls[k].pc \in {"grace1", "grace2"}
           THEN [r1.closeCalls[k] EXCEPT !.pc = "failed"]
           ELSE r1.closeCalls[k]]]

\* child.kill(sig).  A live process takes the signal (killed becomes true) or
\* the kill fails with EPERM, which emits 'error' synchronously; without a
\* process handle kill() returns false and does nothing.
kill(r, sig, out) ==
  IF r.proc = "running"
  THEN IF out = "ok"
       THEN [r EXCEPT !.killed = TRUE,
                      !.childOps = Append(@, KillOp(sig, TRUE))]
       ELSE errorEvent([r EXCEPT !.childOps = Append(@, KillOp(sig, FALSE))],
                       "kill")
  ELSE [r EXCEPT !.childOps = Append(@, KillOp(sig, FALSE))]

\* close(), up to its first await: the closed check and the shutdown request.
closeStart(r, by) ==
  IF r.closed
  THEN [r EXCEPT !.closeCalls =
          Append(@, [pc |-> "done", id |-> 0, by |-> by, noop |-> TRUE])]
  ELSE LET q == request(r, "shutdown", NoParams, "none")
       IN [q.r EXCEPT !.closeCalls =
             Append(@, [pc |-> "shutdown", id |-> q.id, by |-> by,
                        noop |-> FALSE])]

\* close() that ends stdin before it sends the exit notification.
closeAfterShutdown_endFirst(r, k) ==
  LET n == sendNotification([r EXCEPT !.childOps = Append(@, EndOp)], "exit")
  IN [n.r EXCEPT !.closed = TRUE,
                 !.closeCalls[k].pc = "grace1"]

\* close(), from the settled shutdown request to the first grace wait.
closeAfterShutdown(r, k) ==
  LET n == sendNotification(r, "exit")
  IN [n.r EXCEPT !.closed = TRUE,
                 !.childOps = Append(@, EndOp),
                 !.closeCalls[k].pc = "grace1"]

\* close(), first grace window elapsed without an exit event: SIGTERM.
closeAfterGrace1(r, k, out) ==
  LET r1 == [r EXCEPT !.closeCalls[k].pc = "sigterm"]
      r2 == kill(r1, "SIGTERM", out)
  IN [r2 EXCEPT !.closeCalls[k].pc = "grace2"]

\* close(), after the second race: SIGKILL unless child.killed.
closeAfterGrace2(r, k, out) ==
  LET r1 == [r EXCEPT !.closeCalls[k].pc = "done"]
  IN IF ~r1.killed THEN kill(r1, "SIGKILL", out) ELSE r1

\* The close() calls that were racing once(child, "exit") resume after the
\* exit handler: those in the first window return, those in the second
\* window go on to the killed check.
RECURSIVE resumeOnExit(_, _)
resumeOnExit(r, k) ==
  IF k > Len(r.closeCalls)
  THEN r
  ELSE IF r.closeCalls[k].pc = "grace1"
       THEN resumeOnExit([r EXCEPT !.closeCalls[k].pc = "done"], k + 1)
       ELSE IF r.closeCalls[k].pc = "grace2"
            THEN resumeOnExit(closeAfterGrace2(r, k, "ok"), k + 1)
            ELSE resumeOnExit(r, k + 1)

\* The child's 'exit' event (node destroys stdin before emitting it).
exitEvent(r, suffix) ==
  LET r1 == [r EXCEPT !.proc = "exited", !.stdinDestroyed = TRUE, !.closed = TRUE]
      r2 == failAllPending(r1, "terminated", suffix)
  IN resumeOnExit(r2, 1)

\* The 'error' event of a failed spawn (node destroys stdin before it).
spawnErrorEvent(r) ==
  errorEvent([r EXCEPT !.spawnErrPending = FALSE, !.stdinDestroyed = TRUE],
             "spawn")

\* ---- tool names --------------------------------------------------------
\* A string is the sequence of its characters.
MCP_TOOL_NAME_MAX_LENGTH == 64
\* for (let i = 2; i < 10_000; i += 1)
SUFFIX_LOOP_END == 10000

UpperCase == <<"A", "B", "C", "D", "E", "F", "G", "H", "I", "J", "K", "L", "M",
               "N", "O", "P", "Q", "R", "S", "T", "U", "V", "W", "X", "Y", "Z">>
LowerCase == <<"a", "b", "c", "d", "e", "f", "g", "h", "i", "j", "k", "l", "m",
               "n", "o", "p", "q", "r", "s", "t", "u", "v", "w", "x", "y", "z">>
DecimalDigits == <<"0", "1", "2", "3", "4", "5", "6", "7", "8", "9">>
\* Characters other than letters, digits and the underscore.
OtherChars == {" ", "-", ".", "!", "/"}
Chars ==
  {UpperCase[k] : k \in 1..26} \cup {LowerCase[k] : k \in 1..26}
    \cup {DecimalDigits[k] : k \in 1..10} \cup {"_"} \cup OtherChars

lowerOf ==
  [ch \in Chars |->
     IF \E k \in 1..26 : UpperCase[k] = ch
     THEN LowerCase[CHOOSE k \in 1..26 : UpperCase[k] = ch]
     ELSE ch]

\* String.prototype.toLowerCase
toLowerCase(s) ==
  [i \in 1..Len(s) |-> IF s[i] \in Chars THEN lowerOf[s[i]] ELSE s[i]]

\* The character class [a-z0-9_].
segmentChars ==
  {LowerCase[k] : k \in 1..26} \cup {DecimalDigits[k] : k \in 1..10} \cup {"_"}

\* s.replace(/[^a-z0-9_]+/g, "_"): every maximal run of other characters
\* becomes one underscore.
RECURSIVE replaceOtherRuns(_, _)
replaceOtherRuns(s, i) ==
  IF i > Len(s) THEN <<>>
  ELSE IF s[i] \in segmentChars
       THEN <<s[i]>> \o replaceOtherRuns(s, i + 1)
       ELSE IF i > 1 /\ s[i - 1] \notin segmentChars
            THEN replaceOtherRuns(s, i + 1)
            ELSE <<"_">> \o replaceOtherRuns(s, i + 1)

\* s.replace(/_+/g, "_")
RECURSIVE collapseUnderscores(_, _)
collapseUnderscores(s, i) ==
  IF i > Len(s) THEN <<>>
  ELSE IF s[i] = "_" /\ i > 1 /\ s[i - 1] = "_"
       THEN collapseUnderscores(s, i + 1)
       ELSE <<s[i]>> \o collapseUnderscores(s, i + 1)

\* s.replace(/^_+|_+$/g, "")
trimUnderscores(s) ==
  LET kept == {i \in 1..Len(s) : s[i] # "_"}
  IN IF kept = {} THEN <<>>
     ELSE SubSeq(s, CHOOSE i \in kept : \A j \in kept : i <= j,
                    CHOOSE i \in kept : \A j \in kept : i >= j)

\* normalizeMcpToolNameSegment without .replace(/_+/g, "_").
normalizeMcpToolNameSegment_noCollapse(value) ==
  LET normalized == trimUnderscores(replaceOtherRuns(toLowerCase(value), 1))
  IN IF normalized = <<>> THEN <<"t", "o", "o", "l">> ELSE normalized

normalizeMcpToolNameSegment(value) ==
  LET normalized ==
        trimUnderscores(
          collapseUnderscores(replaceOtherRuns(toLowerCase(value), 1), 1))
  IN IF normalized = <<>> THEN <<"t", "o", "o", "l">> ELSE normalized

\* `${i}` of a non-negative integer.
RECURSIVE decimal(_)
decimal(i) ==
  IF i < 10 THEN <<DecimalDigits[i + 1]>>
  ELSE decimal(i \div 10) \o <<DecimalDigits[(i % 10) + 1]>>

\* s.slice(0, n) for n >= 0.
slice(s, n) == SubSeq(s, 1, IF n < Len(s) THEN n ELSE Len(s))

baseName(serverName, remoteToolName) ==
  slice(<<"m", "c", "p", "_">> \o normalizeMcpToolNameSegment(serverName)
          \o <<"_">> \o normalizeMcpToolNameSegment(remoteToolName),
        MCP_TOOL_NAME_MAX_LENGTH)

\* The candidate without the cut: the whole base, then _i.
candidateName_noCut(base, i) == base \o <<"_">> \o decimal(i)

\* The candidate of loop iteration i: the base cut to make room, then _i.
candidateName(base, i) ==
  LET suffix == <<"_">> \o decimal(i)
      room == MCP_TOOL_NAME_MAX_LENGTH - Len(suffix)
  IN slice(base, IF room > 1 THEN room ELSE 1) \o suffix

fallbackName(base) == slice(base, MCP_TOOL_NAME_MAX_LENGTH - 2) \o <<"_", "x">>

\* buildUniqueToolName: the name returned, the usedNames set afterwards and
\* the branch that returned (base | suffix | fallback).
buildUniqueToolName(serverName, remoteToolName, usedNames) ==
  LET base == baseName(serverName, remoteToolName)
      free(i) == toLowerCase(candidateName(base, i)) \notin usedNames
      range == 2..(SUFFIX_LOOP_END - 1)
  IN IF toLowerCase(base) \notin usedNames
     THEN [name |-> base, usedNames |-> usedNames \cup {toLowerCase(base)},
           branch |-> "base"]
     ELSE IF \E i \in range : free(i)
          THEN LET first == CHOOSE i \in range :
                              free(i) /\ \A j \in 2..(i - 1) : ~free(j)
                   candidate == candidateName(base, first)
               IN [name |-> candidate,
                   usedNames |-> usedNames \cup {toLowerCase(candidate)},
                   branch |-> "suffix"]
          ELSE [name |-> fallbackName(base),
                usedNames |-> usedNames \cup {toLowerCase(fallbackName(base))},
                branch |-> "fallback"]

\* ---- stdout framing --------------------------------------------------
\* A Buffer is the sequence of its bytes; a byte is written as the ASCII
\* character it encodes, "C3" "A9" are the two bytes of U+00E9.
CR == "\r"
LF == "\n"
WhiteSpace == {" ", "\t", CR, LF}

\* Buffer.indexOf(pattern): the offset of the first occurrence, or -1.
indexOf(buf, pat) ==
  LET hits == {i \in 0..(Len(buf) - Len(pat)) :
                 SubSeq(buf, i + 1, i + Len(pat)) = pat}
  IN IF hits = {} THEN -1 ELSE CHOOSE i \in hits : \A j \in hits : i <= j

\* Buffer.subarray(start, end), offsets counted from 0.
subarray(buf, start, end) == SubSeq(buf, start + 1, end)

\* Buffer.toString("utf8"): a two-byte sequence becomes one character, a
\* byte of a broken sequence the replacement character.
RECURSIVE toStringUtf8(_, _)
toStringUtf8(bytes, i) ==
  IF i > Len(bytes) THEN <<>>
  ELSE IF bytes[i] = "C3" /\ i < Len(bytes) /\ bytes[i + 1] = "A9"
       THEN <<"U+00E9">> \o toStringUtf8(bytes, i + 2)
       ELSE IF bytes[i] \in {"C3", "A9"}
            THEN <<"U+FFFD">> \o toStringUtf8(bytes, i + 1)
            ELSE <<bytes[i]>> \o toStringUtf8(bytes, i + 1)

\* String.prototype.trim
trim(text) ==
  LET kept == {i \in 1..Len(text) : text[i] \notin WhiteSpace}
  IN IF kept = {} THEN <<>>
     ELSE SubSeq(text, CHOOSE i \in kept : \A j \in kept : i <= j,
                       CHOOSE i \in kept : \A j \in kept : i >= j)

\* The JSON texts the servers of the model send: a response to request 3,
\* an error response to request 3, a response to request 3 whose error
\* field holds a string, and a JSON string.
JsonResponse3 ==
  <<"{", "\"", "i", "d", "\"", ":", "3", "}">>
JsonError3 ==
  <<"{", "\"", "i", "d", "\"", ":", "3", ",", "\"", "e", "r", "r", "o", "r",
    "\"", ":", "{", "}", "}">>
JsonErrorString ==
  <<"{", "\"", "i", "d", "\"", ":", "3", ",", "\"", "e", "r", "r", "o", "r",
    "\"", ":", "\"", "x", "\"", "}">>
JsonString ==
  <<"\"", "U+00E9", "\"">>

\* JSON.parse followed by the reads handleJsonRpcMessage makes of the value:
\* id is 0 when message.id is not a number, isError is
\* isPlainObject(message.error), result is message.result.  Any other text
\* of the model is not JSON (ok = FALSE: JSON.parse throws).
JSONparse(text) ==
  CASE text = JsonResponse3 ->
         [ok |-> TRUE, json |-> text, id |-> 3, isError |-> FALSE,
          result |-> "undefined"]
    [] text = JsonError3 ->
         [ok |-> TRUE, json |-> text, id |-> 3, isError |-> TRUE,
          result |-> ""]
    [] text = JsonErrorString ->
         [ok |-> TRUE, json |-> text, id |-> 3, isError |-> FALSE,
          result |-> "undefined"]
    [] text = JsonString ->
         [ok |-> TRUE, json |-> text, id |-> 0, isError |-> FALSE,
          result |-> ""]
    [] OTHER ->
         [ok |-> FALSE, json |-> text, id |-> 0, isError |-> FALSE,
          result |-> ""]

\* drainLineDelimitedMessages without the try/catch around JSON.parse: the
\* exception ends the loop after the line was taken off the buffer.
RECURSIVE drainLineDelimitedMessages_noCatch(_, _)
drainLineDelimitedMessages_noCatch(buf, messages) ==
  LET lineEnd == indexOf(buf, <<LF>>)
  IN IF lineEnd < 0
     THEN [rest |-> buf, messages |-> messages]
     ELSE LET rawLine == toStringUtf8(subarray(buf, 0, lineEnd), 1)
              rest == subarray(buf, lineEnd + 1, Len(buf))
              line == trim(rawLine)
          IN IF line = <<>>
             THEN drainLineDelimitedMessages_noCatch(rest, messages)
             ELSE IF ~JSONparse(line).ok
                  THEN [rest |-> rest, messages |-> messages]
                  ELSE drainLineDelimitedMessages_noCatch(
                         rest, Append(messages, JSONparse(line)))

\* drainLineDelimitedMessages: the buffer left and the messages handed to
\* handleJsonRpcMessage, in order.
RECURSIVE drainLineDelimitedMessages(_, _)
drainLineDelimitedMessages(buf, messages) ==
  LET lineEnd == indexOf(buf, <<LF>>)
  IN IF lineEnd < 0
     THEN [rest |-> buf, messages |-> messages]
     ELSE LET rawLine == toStringUtf8(subarray(buf, 0, lineEnd), 1)
              rest == subarray(buf, lineEnd + 1, Len(buf))
              line == trim(rawLine)
          IN IF line = <<>> \/ ~JSONparse(line).ok
             THEN drainLineDelimitedMessages(rest, messages)
             ELSE drainLineDelimitedMessages(
                    rest, Append(messages, JSONparse(line)))

\* The first position from p on that holds no white space.
RECURSIVE skipWhiteSpace(_, _)
skipWhiteSpace(text, p) ==
  IF p <= Len(text) /\ text[p] \in WhiteSpace
  THEN skipWhiteSpace(text, p + 1)
  ELSE p

\* The longest run of decimal digits that starts at position p.
RECURSIVE digitsAt(_, _)
digitsAt(text, p) ==
  IF p <= Len(text) /\ text[p] \in {DecimalDigits[k] : k \in 1..10}
  THEN <<text[p]>> \o digitsAt(text, p + 1)
  ELSE <<>>

ContentLengthName ==
  <<"c", "o", "n", "t", "e", "n", "t", "-", "l", "e", "n", "g", "t", "h",
    ":">>

\* headerText.match(/content-length:\s*(\d+)/i): the digits captured by the
\* leftmost match, <<>> when there is no match.
matchContentLength(headerText) ==
  LET n == Len(ContentLengthName)
      captured(p) == digitsAt(headerText, skipWhiteSpace(headerText, p + n))
      hits == {p \in 1..(Len(headerText) - n + 1) :
                 /\ toLowerCase(SubSeq(headerText, p, p + n - 1))
                      = ContentLengthName
                 /\ captured(p) # <<>>}
  IN IF hits = {} THEN <<>>
     ELSE captured(CHOOSE p \in hits : \A q \in hits : p <= q)

\* Number.parseInt(digits, 10)
RECURSIVE parseInt(_)
parseInt(digits) ==
  IF digits = <<>> THEN 0
  ELSE 10 * parseInt(SubSeq(digits, 1, Len(digits) - 1))
         + (CHOOSE k \in 0..9 : DecimalDigits[k + 1] = digits[Len(digits)])

HeaderEndMark == <<CR, LF, CR, LF>>

\* drainHeaderDelimitedMessages that waits at a block without a length.
RECURSIVE drainHeaderDelimitedMessages_keepMalformed(_, _)
drainHeaderDelimitedMessages_keepMalformed(buf, messages) ==
  LET headerEnd == indexOf(buf, HeaderEndMark)
      headerText == toStringUtf8(subarray(buf, 0, headerEnd), 1)
      contentLengthMatch == matchContentLength(headerText)
      bodyStart == headerEnd + 4
      bodyEnd == bodyStart + parseInt(contentLengthMatch)
      body == toStringUtf8(subarray(buf, bodyStart, bodyEnd), 1)
  IN IF headerEnd < 0 \/ contentLengthMatch = <<>> \/ Len(buf) < bodyEnd
     THEN [rest |-> buf, messages |-> messages]
     ELSE drainHeaderDelimitedMessages_keepMalformed(
            subarray(buf, bodyEnd, Len(buf)),
            IF JSONparse(body).ok
            THEN Append(messages, JSONparse(body))
            ELSE messages)

\* drainHeaderDelimitedMessages: the buffer left and the messages handed to
\* handleJsonRpcMessage, in order.
RECURSIVE drainHeaderDelimitedMessages(_, _)
drainHeaderDelimitedMessages(buf, messages) ==
  LET headerEnd == indexOf(buf, HeaderEndMark)
      headerText == toStringUtf8(subarray(buf, 0, headerEnd), 1)
      contentLengthMatch == matchContentLength(headerText)
      bodyStart == headerEnd + 4
      bodyEnd == bodyStart + parseInt(contentLengthMatch)
      body == toStringUtf8(subarray(buf, bodyStart, bodyEnd), 1)
  IN IF headerEnd < 0
     THEN [rest |-> buf, messages |-> messages]
     ELSE IF contentLengthMatch = <<>>
          THEN drainHeaderDelimitedMessages(
                 subarray(buf, headerEnd + 4, Len(buf)), messages)
          ELSE IF Len(buf) < bodyEnd
               THEN [rest |-> buf, messages |-> messages]
               ELSE drainHeaderDelimitedMessages(
                      subarray(buf, bodyEnd, Len(buf)),
                      IF JSONparse(body).ok
                      THEN Append(messages, JSONparse(body))
                      ELSE messages)

\* The drain loop of a client's framing, run on a buffer.
drainMessages(fr, buf) ==
  IF fr = "line"
  THEN drainLineDelimitedMessages(buf, <<>>)
  ELSE drainHeaderDelimitedMessages(buf, <<>>)

\* The messages of a drain handled one after the other.
RECURSIVE handleMessages(_, _, _)
handleMessages(r, messages, k) ==
  IF k > Len(messages) THEN r
  ELSE handleMessages(
         handleJsonRpcMessage(r, messages[k].id, messages[k].isError,
                              messages[k].result),
         messages, k + 1)

\* handleStdoutChunk that forgets what the buffer held.
handleStdoutChunk_dropBuffered(r, fr, chunk) ==
  LET drained == drainMessages(fr, chunk)
  IN [handleMessages(r, drained.messages, 1) EXCEPT
        !.stdoutBuffer = drained.rest,
        !.received = @ \o drained.messages]

\* handleStdoutChunk of a client that uses framing fr.
handleStdoutChunk(r, fr, chunk) ==
  LET drained == drainMessages(fr, r.stdoutBuffer \o chunk)
  IN [handleMessages(r, drained.messages, 1) EXCEPT
        !.stdoutBuffer = drained.rest,
        !.received = @ \o drained.messages]

\* Byte streams of complete frames, per framing.  Among the lines: a blank
\* line, CRLF line ends, a line that is not JSON, a response whose error
\* field is a string.  Among the header frames:
\* a lower-case header without a space, a header block without a length, a
\* body that is not JSON, a block of two header fields, a length that is
\* not a number followed by a block without any field.
LineStreams ==
  {<<"{", "\"", "i", "d", "\"", ":", "3", "}", LF>>,
   <<"{", "\"", "i", "d", "\"", ":", "3", "}", LF, "\"", "C3", "A9", "\"",
     LF>>,
   <<" ", CR, LF, "{", "\"", "i", "d", "\"", ":", "3", ",", "\"", "e", "r",
     "r", "o", "r", "\"", ":", "{", "}", "}", CR, LF>>,
   <<"{", LF, "{", "\"", "i", "d", "\"", ":", "3", "}", LF>>,
   <<"{", "\"", "i", "d", "\"", ":", "3", ",", "\"", "e", "r", "r", "o", "r",
     "\"", ":", "\"", "x", "\"", "}", LF>>}

HeaderStreams ==
  {<<"C", "o", "n", "t", "e", "n", "t", "-", "L", "e", "n", "g", "t", "h",
     ":", " ", "8", CR, LF, CR, LF, "{", "\"", "i", "d", "\"", ":", "3",
     "}">>,
   <<"C", "o", "n", "t", "e", "n", "t", "-", "L", "e", "n", "g", "t", "h",
     ":", " ", "8", CR, LF, CR, LF, "{", "\"", "i", "d", "\"", ":", "3",
     "}", "c", "o", "n", "t", "e", "n", "t", "-", "l", "e", "n", "g", "t",
     "h", ":", "4", CR, LF, CR, LF, "\"", "C3", "A9", "\"">>,
   <<"X", ":", " ", "1", CR, LF, CR, LF, "C", "o", "n", "t", "e", "n", "t",
     "-", "L", "e", "n", "g", "t", "h", ":", " ", "1", "9", CR, LF, CR, LF,
     "{", "\"", "i", "d", "\"", ":", "3", ",", "\"", "e", "r", "r", "o",
     "r", "\"", ":", "{", "}", "}">>,
   <<"C", "o", "n", "t", "e", "n", "t", "-", "L", "e", "n", "g", "t", "h",
     ":", " ", "1", CR, LF, CR, LF, "{", "C", "o", "n", "t", "e", "n", "t",
     "-", "L", "e", "n", "g", "t", "h", ":", " ", "8", CR, LF, CR, LF, "{",
     "\"", "i", "d", "\"", ":", "3", "}">>,
   <<"C", "o", "n", "t", "e", "n", "t", "-", "T", "y", "p", "e", ":", " ",
     "a", CR, LF, "C", "o", "n", "t", "e", "n", "t", "-", "L", "e", "n",
     "g", "t", "h", ":", " ", "8", CR, LF, CR, LF, "{", "\"", "i", "d",
     "\"", ":", "3", "}">>,
   <<"C", "o", "n", "t", "e", "n", "t", "-", "L", "e", "n", "g", "t", "h",
     ":", " ", "x", CR, LF, CR, LF, "X", CR, LF, CR, LF, "C", "o", "n", "t",
     "e", "n", "t", "-", "L", "e", "n", "g", "t", "h", ":", " ", "8", CR, LF,
     CR, LF, "{", "\"", "i", "d", "\"", ":", "3", "}">>}

\* ---- server specs of the snapshot ----------------------------------------
\* [A-Za-z_]
IdentStart == {UpperCase[k] : k \in 1..26} \cup {LowerCase[k] : k \in 1..26} \cup {"_"}

\* The last position of the longest run of [A-Za-z0-9_] that starts at p
\* (p - 1 when position p holds another character).
RECURSIVE identEnd(_, _)
identEnd(value, p) ==
  IF /\ p <= Len(value)
     /\ value[p] \in IdentStart \cup {DecimalDigits[k] : k \in 1..10}
  THEN identEnd(value, p + 1)
  ELSE p - 1

\* MCP_ENV_VAR_PATTERN tried at the start of value: the position of the
\* closing brace of the match, 0 when the pattern does not match there.
matchEnvVar(value) ==
  IF /\ Len(value) >= 4
     /\ value[1] = "$"
     /\ value[2] = "{"
     /\ value[3] \in IdentStart
     /\ identEnd(value, 4) < Len(value)
     /\ value[identEnd(value, 4) + 1] = "}"
  THEN identEnd(value, 4) + 1
  ELSE 0

\* Properties that process.env, as every object, inherits from
\* Object.prototype; the functions among them convert to the string
\* "function <name>() { [native code] }".
InheritedNames ==
  {<<"t", "o", "S", "t", "r", "i", "n", "g">>,
   <<"v", "a", "l", "u", "e", "O", "f">>}

\* process.env[envName]: the variable when it is set, else the inherited
\* property of that name, else undefined.
processEnvGet(env, envName) ==
  IF envName \in DOMAIN env
  THEN [defined |-> TRUE, text |-> env[envName]]
  ELSE IF envName \in InheritedNames
       THEN [defined |-> TRUE,
             text |-> <<"f", "u", "n", "c", "t", "i", "o", "n", " ">> \o envName
                        \o <<"(", ")", " ", "{", " ", "[", "n", "a", "t", "i", "v", "e", " ", "c", "o", "d", "e", "]", " ", "}">>]
       ELSE [defined |-> FALSE, text |-> <<>>]

\* value.replace(MCP_ENV_VAR_PATTERN, (_match, envName) =>
\*   process.env[envName] ?? ""): the matches are taken from left to right
\* and what replaces a match is not searched again.
RECURSIVE resolveMcpEnvValue(_, _)
resolveMcpEnvValue(value, env) ==
  LET close == matchEnvVar(value)
      found == processEnvGet(env, SubSeq(value, 3, close - 1))
  IN IF value = <<>> THEN <<>>
     ELSE IF close = 0
          THEN <<value[1]>> \o resolveMcpEnvValue(Tail(value), env)
          ELSE (IF found.defined THEN found.text ELSE <<>>)
                 \o resolveMcpEnvValue(SubSeq(value, close + 1, Len(value)), env)

\* A JavaScript value is modelled by [isString, text], text being <<>> for
\* a value that is not a string.  A raw record of the snapshot is
\* [plain, name, command, args, env]: plain tells isPlainObject(spec); args
\* is the sequence of the entries of spec.args, <<>> also when spec.args is
\* not an array; env is the sequence of the <<key, value>> entries of
\* spec.env, <<>> also when spec.env is not a plain object.
\*
\* Object.fromEntries of the env entries that are kept: a later entry of the
\* same trimmed key replaces an earlier one.
RECURSIVE envFromEntries(_, _, _)
envFromEntries(entries, k, env) ==
  IF k = 0 THEN <<>>
  ELSE LET key == trim(entries[k][1])
           value == entries[k][2]
           before == envFromEntries(entries, k - 1, env)
       IN IF Len(key) > 0 /\ value.isString
          THEN (key :> resolveMcpEnvValue(value.text, env)) @@ before
          ELSE before

\* normalizeServerSpec: null (ok = FALSE) or the spec.  An env without
\* entries is undefined, which <<>> models.
normalizeServerSpec(spec, env) ==
  LET name == IF spec.name.isString THEN trim(spec.name.text) ELSE <<>>
      command == IF spec.command.isString THEN trim(spec.command.text) ELSE <<>>
      strings == SelectSeq(spec.args, LAMBDA entry : entry.isString)
      trimmed == [k \in 1..Len(strings) |-> trim(strings[k].text)]
  IN IF ~spec.plain \/ name = <<>> \/ command = <<>>
     THEN [ok |-> FALSE, name |-> <<>>, command |-> <<>>, args |-> <<>>,
           env |-> <<>>]
     ELSE [ok |-> TRUE, name |-> name, command |-> command,
           args |-> SelectSeq(trimmed, LAMBDA entry : entry # <<>>),
           env |-> envFromEntries(spec.env, Len(spec.env), env)]

\* resolveSnapshotMcpServers that keeps the first record of a name.
RECURSIVE resolveSnapshotMcpServers_firstWins(_, _, _)
resolveSnapshotMcpServers_firstWins(mcpServers, k, env) ==
  IF k = 0 THEN <<>>
  ELSE LET byName == resolveSnapshotMcpServers_firstWins(mcpServers, k - 1, env)
           normalized == normalizeServerSpec(mcpServers[k], env)
       IN IF ~normalized.ok
             \/ \E j \in 1..Len(byName) : byName[j].name = normalized.name
          THEN byName
          ELSE Append(byName, normalized)

\* resolveSnapshotMcpServers after the first k records of the list: the
\* values of the Map byName in insertion order.  Map.set of a name that is
\* present replaces its value and keeps its place.
RECURSIVE resolveSnapshotMcpServers(_, _, _)
resolveSnapshotMcpServers(mcpServers, k, env) ==
  IF k = 0 THEN <<>>
  ELSE LET byName == resolveSnapshotMcpServers(mcpServers, k - 1, env)
           normalized == normalizeServerSpec(mcpServers[k], env)
       IN IF ~normalized.ok
          THEN byName
          ELSE IF \E j \in 1..Len(byName) : byName[j].name = normalized.name
               THEN [j \in 1..Len(byName) |->
                       IF byName[j].name = normalized.name
                       THEN normalized ELSE byName[j]]
               ELSE Append(byName, normalized)

\* ---- OpenClawTemporalClient ------------------------------------------------
\* What client.workflow.start rejects with, as [instance, name]: instance
\* tells error instanceof WorkflowExecutionAlreadyStartedError of the
\* imported package.  The cluster refuses a start under an id that has a
\* running execution; the error of a second copy of the package has the
\* name but is no instance; every start can fail for another reason; the
\* name "none" stands for a start that the cluster accepts.
StartErrors ==
  [none |-> {[instance |-> FALSE, name |-> "none"]},
   alreadyStarted |->
     {[instance |-> TRUE, name |-> "WorkflowExecutionAlreadyStartedError"],
      [instance |-> FALSE, name |-> "WorkflowExecutionAlreadyStartedError"]},
   other |-> {[instance |-> FALSE, name |-> "ServiceError"]}]

\* isWorkflowAlreadyStartedError that only knows instances.
isWorkflowAlreadyStartedError_instanceOnly(error) ==
  error.instance

isWorkflowAlreadyStartedError(error) ==
  error.instance \/ error.name = "WorkflowExecutionAlreadyStartedError"

\* startHeartbeatWorkflow(agentId, intervalMs), in which the cluster accepts
\* the start (possible when no execution of the id runs; the heartbeat
\* workflow loops for ever) or start rejects with error.
startHeartbeatWorkflow(agentId, intervalMs, error) ==
  LET workflowId == "heartbeat-" \o agentId
      running == workflowId \in DOMAIN temporal.runs
      run == [taskQueue |-> temporal.taskQueue,
              args |-> <<agentId, intervalMs>>]
      call == [agentId |-> agentId, intervalMs |-> intervalMs,
               running |-> running]
  IN /\ error \in StartErrors.other
                  \cup (IF running THEN StartErrors.alreadyStarted
                        ELSE StartErrors.none)
     /\ IF error \in StartErrors.none
        THEN /\ temporal' = [temporal EXCEPT
                               !.runs = (workflowId :> <<run>>) @@ @]
             /\ applied' = [fn |-> "startHeartbeatWorkflow", arg |-> call,
                            out |-> [start |-> "started", status |-> "returned",
                                     value |-> workflowId]]
        ELSE /\ UNCHANGED temporal
             /\ applied' =
                  [fn |-> "startHeartbeatWorkflow", arg |-> call,
                   out |-> IF isWorkflowAlreadyStartedError(error)
                           THEN [start |-> error.name, status |-> "returned",
                                 value |-> workflowId]
                           ELSE [start |-> error.name, status |-> "thrown",
                                 value |-> error.name]]
     /\ UNCHANGED <<mcpVars, cfg>>

\* ---- the mcp CLI commands -------------------------------------------------
\* cfg.mcpServers is the map skills.mcpServers, <<>> also when the key is
\* absent; cfg.otherSkills tells whether cfg.skills has another key.  An
\* override is [enabled, command, args, env]; enabled is "true", "false" or
\* "absent", an empty command, args or env is also an absent one.
\*
\* applyMcpConfigMap: with entries the map replaces skills.mcpServers;
\* without entries the key is deleted from a copy of skills, and the copy
\* replaces cfg.skills only when it has a key left.
applyMcpConfigMap(config, mcpServers) ==
  LET hasEntries == DOMAIN mcpServers # {}
  IN IF hasEntries \/ config.otherSkills
     THEN [config EXCEPT !.mcpServers = mcpServers]
     ELSE config

\* `mcp stop <name>`; valid tells whether the config file is valid when
\* updateConfig reads it.
McpStop(rawName, valid) ==
  LET name == trim(rawName)
      mcpServers == cfg.mcpServers
      current == IF name \in DOMAIN mcpServers THEN mcpServers[name]
                 ELSE [enabled |-> "absent", command |-> "", args |-> <<>>,
                       env |-> <<>>]
      stopped == (name :> [current EXCEPT !.enabled = "false"]) @@ mcpServers
  IN /\ IF name = <<>> \/ ~valid
        THEN /\ applied' = [fn |-> "mcp stop", arg |-> rawName,
                            out |-> "thrown"]
             /\ UNCHANGED cfg
        ELSE /\ applied' = [fn |-> "mcp stop", arg |-> rawName, out |-> "ok"]
             /\ cfg' = applyMcpConfigMap(cfg, stopped)
     /\ UNCHANGED <<mcpVars, temporal>>

\* `mcp start <name>`; active tells whether the skills resolve a server of
\* that name.
McpStart(rawName, valid, active) ==
  LET name == trim(rawName)
      mcpServers == cfg.mcpServers
      current == mcpServers[name]
      isDisableOnlyOverride ==
        /\ current.enabled = "false"
        /\ current.command = ""
        /\ current.args = <<>>
        /\ current.env = <<>>
      started ==
        IF isDisableOnlyOverride
        THEN [n \in DOMAIN mcpServers \ {name} |-> mcpServers[n]]
        ELSE (name :> [current EXCEPT !.enabled = "true"]) @@ mcpServers
  IN /\ IF name = <<>>
        THEN /\ applied' = [fn |-> "mcp start", arg |-> rawName,
                            out |-> "thrown"]
             /\ UNCHANGED cfg
        ELSE IF name \notin DOMAIN mcpServers
             THEN /\ applied' = [fn |-> "mcp start", arg |-> rawName,
                                 out |-> IF active THEN "already active"
                                         ELSE "thrown"]
                  /\ UNCHANGED cfg
             ELSE IF ~valid
                  THEN /\ applied' = [fn |-> "mcp start", arg |-> rawName,
                                      out |-> "thrown"]
                       /\ UNCHANGED cfg
                  ELSE /\ applied' = [fn |-> "mcp start", arg |-> rawName,
                                      out |-> "ok"]
                       /\ cfg' = applyMcpConfigMap(cfg, started)
     /\ UNCHANGED <<mcpVars, temporal>>

\* ---- createEmbeddedMcpTools: the discovery loop ---------------------------
cur == <<specs[idx], framing>>

\* The clients in launch order.
Reverse_launchOrder(q) == q

\* Array.prototype.toReversed
Reverse(q) == [i \in 1..Len(q) |-> q[Len(q) + 1 - i]]

\* The id of the tools/list request of a client (0: none was issued).
ListId(r) ==
  IF \E i \in IdRange : r.reqs[i].method = "tools/list"
  THEN CHOOSE i \in IdRange : r.reqs[i].method = "tools/list"
  ELSE 0

\* Remote tool names.  Two differ only in case, two only beyond the 64th
\* character of their base name, one has no character of [a-z0-9_].
Echo == <<"e", "c", "h", "o">>
EchoCapital == <<"E", "c", "h", "o">>
ToolC == <<"c">>
ToolBC == <<"b", "_", "c">>
ToolBang == <<"!">>
LongTool1 == [i \in 1..60 |-> "x"] \o <<"1">>
LongTool2 == [i \in 1..60 |-> "x"] \o <<"2">>

\* spec.name of each server of the model.
serverName(s) ==
  CASE s = "s1" -> <<"s", "1">>
    [] s = "s2" -> <<"s", "2">>
    [] s = "a" -> <<"a">>
    [] s = "a_b" -> <<"a", "_", "b">>

\* listTools: the entries of a resolved tools/list result (the names, trimmed
\* and non-empty, in the order listed).
listedTools(result) ==
  CASE result = "one" -> <<Echo>>
    [] result = "long" -> <<ToolBC, LongTool1, LongTool2>>
    [] result = "twice" -> <<ToolC, ToolC>>
    [] OTHER -> <<>>

\* One iteration of the loop over the listed entries: the tool pushed onto
\* tools under the name buildUniqueToolName returned.
registerTool(reg, c, entry) ==
  LET b == buildUniqueToolName(serverName(c[1]), entry, reg.usedNames)
  IN [tools |-> Append(reg.tools, [c |-> c, entry |-> entry, name |-> b.name]),
      usedNames |-> b.usedNames,
      branch |-> b.branch]

\* The loop over the listed entries of one server, from entry k on.
RECURSIVE registerTools(_, _, _, _)
registerTools(reg, c, entries, k) ==
  IF k > Len(entries) THEN reg
  ELSE registerTools(registerTool(reg, c, entries[k]), c, entries, k + 1)

NoTools == [tools |-> <<>>, usedNames |-> {}, branch |-> ""]

ToolCallCount(r) ==
  Cardinality({i \in IdRange : r.reqs[i].method = "tools/call"})

DirectCloseCount(r) ==
  Cardinality({k \in DOMAIN r.closeCalls : r.closeCalls[k].by = "direct"})

CloseSettled(r, k) == r.closeCalls[k].pc \in {"done", "failed"}

\* A continuation is runnable: no macrotask runs before it has run.
MainReady ==
  \/ mainPc = "spawn"
  \/ mainPc = "init" /\ cl[cur].reqs[1].outcome # "waiting"
  \/ mainPc = "closeFailed" /\ CloseSettled(cl[cur], Len(cl[cur].closeCalls))
  \/ mainPc = "list" /\ (ListId(cl[cur]) = 0
                         \/ cl[cur].reqs[ListId(cl[cur])].outcome # "waiting")

CloseReady(c, k) ==
  /\ cl[c].closeCalls[k].pc = "shutdown"
  /\ cl[c].reqs[cl[c].closeCalls[k].id].outcome # "waiting"

CleanupReady(j) ==
  /\ cleanupCalls[j].pc = "closing"
  /\ CloseSettled(cl[Reverse(clients)[cleanupCalls[j].pos]], cleanupCalls[j].cc)

MicrotaskPending ==
  \/ MainReady
  \/ \E c \in DOMAIN cl : cl[c].spawnErrPending
  \/ \E c \in DOMAIN cl : \E k \in DOMAIN cl[c].closeCalls : CloseReady(c, k)
  \/ \E j \in DOMAIN cleanupCalls : CleanupReady(j)

\* What ran last: the handler, its client, the request id or call number it
\* is about, its input and its immediate result.
Label(op, c, id, in, res) ==
  [op |-> op, c |-> c, id |-> id, in |-> in, res |-> res]

\* The for loop moves to the next spec, or the function returns the handle.
AdvanceSpec ==
  /\ idx' = idx + 1
  /\ framing' = "line"
  /\ mainPc' = IF idx + 1 > Len(specs) THEN "returned" ELSE "spawn"

\* The loop without its try/catch: a rejected launch() rejects
\* createEmbeddedMcpTools.
AfterLaunchFailure_propagate ==
  IF framing = "line"
  THEN /\ framing' = "header"
       /\ mainPc' = "spawn"
       /\ idx' = idx
  ELSE /\ mainPc' = "rejected"
       /\ UNCHANGED <<idx, framing>>

\* launch() as a retry loop: every failed attempt is followed by another.
AfterLaunchFailure_retryLoop ==
  /\ framing' = "header"
  /\ mainPc' = "spawn"
  /\ idx' = idx

\* launch(): a failed line attempt is followed by one header attempt; a
\* failed header attempt rejects launch, which the loop's catch logs.
AfterLaunchFailure ==
  IF framing = "line"
  THEN /\ framing' = "header"
       /\ mainPc' = "spawn"
       /\ idx' = idx
  ELSE AdvanceSpec

\* launchWithFraming: spawn, construct the client, start initialize().
launchWithFraming(out) ==
  /\ mainPc = "spawn"
  /\ attempts' = Append(attempts, <<specs[idx], framing, out>>)
  /\ IF out = "throw"
     THEN /\ AfterLaunchFailure
          /\ UNCHANGED cl
     ELSE /\ cl' = [cl EXCEPT ![cur] =
                 request([NewClient EXCEPT !.proc = out,
                                           !.spawnErrPending = (out = "spawnfail")],
                         "initialize", NoParams, "none").r]
          /\ mainPc' = "init"
          /\ UNCHANGED <<idx, framing>>
  /\ last' = Label("spawn", cur, 0, framing, out)
  /\ UNCHANGED <<hostVars, usedToolNames, calls, specs, clients, tools,
                 cleanedUp, cleanupCalls>>

\* initialize() settled: on success the initialized notification, the push
\* onto clients and the tools/list request; on failure close() of the client.
InitSettled ==
  /\ mainPc = "init"
  /\ cl[cur].reqs[1].outcome # "waiting"
  /\ LET r == cl[cur]
         n == sendNotification(r, "notifications/initialized")
     IN IF r.reqs[1].outcome = "resolved" /\ n.ok
        THEN /\ cl' = [cl EXCEPT ![cur] = request(n.r, "tools/list", NoParams, "none").r]
             /\ clients' = Append(clients, cur)
             /\ mainPc' = "list"
             /\ last' = Label("initialized", cur, 1, "", "ok")
        ELSE /\ cl' = [cl EXCEPT ![cur] = closeStart(r, "launch")]
             /\ mainPc' = "closeFailed"
             /\ last' = Label("initFailed", cur, 1, "", r.reqs[1].outcome)
             /\ UNCHANGED clients
  /\ UNCHANGED <<hostVars, usedToolNames, calls, specs, idx, framing,
                 attempts, tools, cleanedUp, cleanupCalls>>

\* launchWithFraming: close() of the failed client returned; rethrow.
CloseFailedDone ==
  /\ mainPc = "closeFailed"
  /\ CloseSettled(cl[cur], Len(cl[cur].closeCalls))
  /\ AfterLaunchFailure
  /\ last' = Label("attemptFailed", cur, 0, framing, "")
  /\ UNCHANGED <<hostVars, cl, usedToolNames, calls, specs, attempts, clients,
                 tools, cleanedUp, cleanupCalls>>

\* listTools() settled: register one bridged tool per listed entry.
ListSettled ==
  /\ mainPc = "list"
  /\ LET r == cl[cur]
         i == ListId(r)
     IN /\ i = 0 \/ r.reqs[i].outcome # "waiting"
        /\ LET entries == IF i # 0 /\ r.reqs[i].outcome = "resolved"
                          THEN listedTools(r.reqs[i].result)
                          ELSE <<>>
               reg == registerTools([tools |-> tools,
                                     usedNames |-> usedToolNames,
                                     branch |-> ""], cur, entries, 1)
           IN /\ tools' = reg.tools
              /\ usedToolNames' = reg.usedNames
        /\ last' = Label("listed", cur, i, "",
                        IF i = 0 THEN "" ELSE r.reqs[i].outcome)
  /\ AdvanceSpec
  /\ UNCHANGED <<hostVars, cl, calls, specs, attempts, clients, cleanedUp,
                 cleanupCalls>>

\* ---- events of a client's process and timers ------------------------------
\* A decoded inbound message reaches handleJsonRpcMessage.
Response(c, idValue, isError, result) ==
  /\ ~MicrotaskPending
  /\ cl[c].proc = "running"
  /\ result \in (IF idValue # 0 /\ cl[c].reqs[idValue].method = "tools/list"
                 THEN ListResults ELSE {"ok"})
  /\ cl' = [cl EXCEPT ![c] = handleJsonRpcMessage(@, idValue, isError, result)]
  /\ last' = IF idValue \in cl[c].pending
             THEN Label("response", c, idValue, "", "matched")
             ELSE Label("response", c, 0, "", "ignored")
  /\ UNCHANGED <<hostVars, usedToolNames, calls, specs, mainPc, idx, framing,
                 attempts, clients, tools, cleanedUp, cleanupCalls>>

\* A 'data' event of the process's stdout delivers the next n unread bytes.
Chunk(c, n) ==
  /\ ~MicrotaskPending
  /\ cl[c].proc = "running"
  /\ n \in 1..(Len(cl[c].stdout) - cl[c].stdoutRead)
  /\ LET r == cl[c]
         chunk == SubSeq(r.stdout, r.stdoutRead + 1, r.stdoutRead + n)
     IN cl' = [cl EXCEPT ![c] =
                 [handleStdoutChunk(r, c[2], chunk) EXCEPT
                    !.stdoutRead = r.stdoutRead + n]]
  /\ last' = Label("chunk", c, n, "", "")
  /\ UNCHANGED <<hostVars, usedToolNames, calls, specs, mainPc, idx, framing,
                 attempts, clients, tools, cleanedUp, cleanupCalls>>

\* The timeout timer of request id fires.
Timeout(c, id) ==
  /\ ~MicrotaskPending
  /\ id \in cl[c].timers
  /\ cl' = [cl EXCEPT ![c] = onTimeout(@, id)]
  /\ last' = Label("timeout", c, id, "", "")
  /\ UNCHANGED <<hostVars, usedToolNames, calls, specs, mainPc, idx, framing,
                 attempts, clients, tools, cleanedUp, cleanupCalls>>

\* The caller of a tool execution triggers its AbortSignal while the abort
\* listener of request id is attached to it.
Abort(c, id) ==
  /\ ~MicrotaskPending
  /\ id \in cl[c].listeners
  /\ cl' = [cl EXCEPT ![c] = onAbort(@, id)]
  /\ last' = Label("abort", c, id, "", "")
  /\ UNCHANGED <<hostVars, usedToolNames, calls, specs, mainPc, idx, framing,
                 attempts, clients, tools, cleanedUp, cleanupCalls>>

\* The process exits: 'exit' event.
Exit(c, suffix) ==
  /\ ~MicrotaskPending
  /\ cl[c].proc = "running"
  /\ cl' = [cl EXCEPT ![c] = exitEvent(@, suffix)]
  /\ last' = Label("exit", c, 0, suffix, "")
  /\ UNCHANGED <<hostVars, usedToolNames, calls, specs, mainPc, idx, framing,
                 attempts, clients, tools, cleanedUp, cleanupCalls>>

\* The 'error' event of a failed spawn, emitted on the next tick.
SpawnError(c) ==
  /\ cl[c].spawnErrPending
  /\ cl' = [cl EXCEPT ![c] = spawnErrorEvent(@)]
  /\ last' = Label("error", c, 0, "spawn", "")
  /\ UNCHANGED <<hostVars, usedToolNames, calls, specs, mainPc, idx, framing,
                 attempts, clients, tools, cleanedUp, cleanupCalls>>

\* ---- close() -------------------------------------------------------------
CloseContinue(c, k) ==
  /\ k \in DOMAIN cl[c].closeCalls
  /\ CloseReady(c, k)
  /\ cl' = [cl EXCEPT ![c] = closeAfterShutdown(@, k)]
  /\ last' = Label("closeContinue", c, k, "",
                   IF sendNotification(cl[c], "exit").ok
                   THEN "exitWritten" ELSE "exitRejected")
  /\ UNCHANGED <<hostVars, usedToolNames, calls, specs, mainPc, idx, framing,
                 attempts, clients, tools, cleanedUp, cleanupCalls>>

GraceElapsed1(c, k, out) ==
  /\ ~MicrotaskPending
  /\ k \in DOMAIN cl[c].closeCalls
  /\ cl[c].closeCalls[k].pc = "grace1"
  /\ out = "eperm" => cl[c].proc = "running"
  /\ cl' = [cl EXCEPT ![c] = closeAfterGrace1(@, k, out)]
  /\ last' = Label("grace1", c, k, out, "")
  /\ UNCHANGED <<hostVars, usedToolNames, calls, specs, mainPc, idx, framing,
                 attempts, clients, tools, cleanedUp, cleanupCalls>>

GraceElapsed2(c, k, out) ==
  /\ ~MicrotaskPending
  /\ k \in DOMAIN cl[c].closeCalls
  /\ cl[c].closeCalls[k].pc = "grace2"
  /\ out = "eperm" => (cl[c].proc = "running" /\ ~cl[c].killed)
  /\ cl' = [cl EXCEPT ![c] = closeAfterGrace2(@, k, out)]
  /\ last' = Label("grace2", c, k, out, "")
  /\ UNCHANGED <<hostVars, usedToolNames, calls, specs, mainPc, idx, framing,
                 attempts, clients, tools, cleanedUp, cleanupCalls>>

\* close() invoked on a launched client by a caller other than cleanup().
CloseDirect(c) ==
  /\ ~MicrotaskPending
  /\ mainPc = "returned"
  /\ c \in {clients[i] : i \in DOMAIN clients}
  /\ DirectCloseCount(cl[c]) < MaxDirectCloses
  /\ cl' = [cl EXCEPT ![c] = closeStart(@, "direct")]
  /\ last' = Label("close", c, Len(cl[c].closeCalls) + 1, "",
                   IF cl[c].closed THEN "noop" ELSE "started")
  /\ UNCHANGED <<hostVars, usedToolNames, calls, specs, mainPc, idx, framing,
                 attempts, clients, tools, cleanedUp, cleanupCalls>>

\* ---- the handle: bridged tools and cleanup() -----------------------------
\* Argument payloads: "null" stands for a value that is not a plain object.
ArgValues == {"null", "{}", "{k:1}"}
isPlainObject(v) == v # "null"

callTool(r, name, args, sig) ==
  request(r, "tools/call", [name |-> name, arguments |-> args], sig)

\* What the promise of execute() invocation k settles to: the envelope of
\* jsonResult around the remote result, or the rejection of callTool.
executeResult(k) ==
  LET tool == tools[calls[k].t]
      q == cl[tool.c].reqs[calls[k].id]
  IN IF q.outcome = "resolved"
     THEN [status |-> "ok", server |-> serverName(tool.c[1]),
           tool |-> tool.entry, result |-> q.result]
     ELSE [status |-> q.outcome, server |-> <<>>, tool |-> <<>>,
           result |-> ""]

\* execute() that calls the remote tool by the local tool name.
execute_localName(t, args, sig) ==
  /\ ~MicrotaskPending
  /\ mainPc = "returned"
  /\ t \in DOMAIN tools
  /\ LET c == tools[t].c
         q == callTool(cl[c], tools[t].name, args, sig)
     IN IF ~isPlainObject(args)
        THEN /\ last' = Label("execute", c, 0, "", "badargs")
             /\ UNCHANGED <<cl, calls>>
        ELSE /\ ~cl[c].closed => ToolCallCount(cl[c]) < MaxToolCalls
             /\ cl' = [cl EXCEPT ![c] = q.r]
             /\ calls' = IF q.id = 0 THEN calls
                         ELSE Append(calls, [t |-> t, args |-> args, id |-> q.id])
             /\ last' = Label("execute", c, q.id, sig, q.res)
  /\ UNCHANGED <<hostVars, usedToolNames, specs, mainPc, idx, framing,
                 attempts, clients, tools, cleanedUp, cleanupCalls>>

\* execute() that validates the payload after callTool was invoked.
execute_validateLate(t, args, sig) ==
  /\ ~MicrotaskPending
  /\ mainPc = "returned"
  /\ t \in DOMAIN tools
  /\ LET c == tools[t].c
         q == callTool(cl[c], tools[t].entry, args, sig)
     IN /\ ~cl[c].closed => ToolCallCount(cl[c]) < MaxToolCalls
        /\ cl' = [cl EXCEPT ![c] = q.r]
        /\ IF ~isPlainObject(args)
           THEN /\ last' = Label("execute", c, 0, "", "badargs")
                /\ UNCHANGED calls
           ELSE /\ calls' = IF q.id = 0 THEN calls
                            ELSE Append(calls,
                                        [t |-> t, args |-> args, id |-> q.id])
                /\ last' = Label("execute", c, q.id, sig, q.res)
  /\ UNCHANGED <<hostVars, usedToolNames, specs, mainPc, idx, framing,
                 attempts, clients, tools, cleanedUp, cleanupCalls>>

\* execute() of bridged tool t with an argument payload and an AbortSignal
\* (none, live, or already aborted).
execute(t, args, sig) ==
  /\ ~MicrotaskPending
  /\ mainPc = "returned"
  /\ t \in DOMAIN tools
  /\ LET c == tools[t].c
         q == callTool(cl[c], tools[t].entry, args, sig)
     IN IF ~isPlainObject(args)
        THEN /\ last' = Label("execute", c, 0, "", "badargs")
             /\ UNCHANGED <<cl, calls>>
        ELSE /\ ~cl[c].closed => ToolCallCount(cl[c]) < MaxToolCalls
             /\ cl' = [cl EXCEPT ![c] = q.r]
             /\ calls' = IF q.id = 0 THEN calls
                         ELSE Append(calls, [t |-> t, args |-> args, id |-> q.id])
             /\ last' = Label("execute", c, q.id, sig, q.res)
  /\ UNCHANGED <<hostVars, usedToolNames, specs, mainPc, idx, framing,
                 attempts, clients, tools, cleanedUp, cleanupCalls>>

\* cleanup() without the cleanedUp guard.
cleanup_noGuard ==
  /\ ~MicrotaskPending
  /\ mainPc = "returned"
  /\ Len(cleanupCalls) < MaxCleanupCalls
  /\ cleanedUp' = TRUE
  /\ IF clients = <<>>
     THEN /\ cleanupCalls' = Append(cleanupCalls,
                                    [pc |-> "done", pos |-> 0, cc |-> 0])
          /\ UNCHANGED cl
     ELSE LET c == Reverse(clients)[1]
          IN /\ cl' = [cl EXCEPT ![c] = closeStart(@, "cleanup")]
             /\ cleanupCalls' =
                  Append(cleanupCalls,
                         [pc |-> "closing", pos |-> 1,
                          cc |-> Len(cl[c].closeCalls) + 1])
  /\ last' = Label("cleanup", <<"", "">>, Len(cleanupCalls) + 1, "", "started")
  /\ UNCHANGED <<hostVars, usedToolNames, calls, specs, mainPc, idx, framing,
                 attempts, clients, tools>>

\* cleanup() that sets its flag and returns.
cleanup_noClose ==
  /\ ~MicrotaskPending
  /\ mainPc = "returned"
  /\ Len(cleanupCalls) < MaxCleanupCalls
  /\ cleanedUp' = TRUE
  /\ cleanupCalls' = Append(cleanupCalls,
                            [pc |-> IF cleanedUp THEN "noop" ELSE "done",
                             pos |-> 0, cc |-> 0])
  /\ last' = Label("cleanup", <<"", "">>, Len(cleanupCalls) + 1, "",
                   IF cleanedUp THEN "noop" ELSE "started")
  /\ UNCHANGED <<hostVars, cl, usedToolNames, calls, specs, mainPc, idx,
                 framing, attempts, clients, tools>>

\* cleanup(): the guard flag, then close() of the last-launched client.
cleanup ==
  /\ ~MicrotaskPending
  /\ mainPc = "returned"
  /\ Len(cleanupCalls) < MaxCleanupCalls
  /\ IF cleanedUp
     THEN /\ cleanupCalls' = Append(cleanupCalls,
                                    [pc |-> "noop", pos |-> 0, cc |-> 0])
          /\ UNCHANGED <<cl, cleanedUp>>
     ELSE /\ cleanedUp' = TRUE
          /\ IF clients = <<>>
             THEN /\ cleanupCalls' = Append(cleanupCalls,
                                            [pc |-> "done", pos |-> 0, cc |-> 0])
                  /\ UNCHANGED cl
             ELSE LET c == Reverse(clients)[1]
                  IN /\ cl' = [cl EXCEPT ![c] = closeStart(@, "cleanup")]
                     /\ cleanupCalls' =
                          Append(cleanupCalls,
                                 [pc |-> "closing", pos |-> 1,
                                  cc |-> Len(cl[c].closeCalls) + 1])
  /\ last' = Label("cleanup", <<"", "">>, Len(cleanupCalls) + 1, "",
                   IF cleanedUp THEN "noop" ELSE "started")
  /\ UNCHANGED <<hostVars, usedToolNames, calls, specs, mainPc, idx, framing,
                 attempts, clients, tools>>

\* cleanup() without the try/catch around close(): a rejected close()
\* rejects cleanup().
CleanupContinue_rethrow(j) ==
  /\ j \in DOMAIN cleanupCalls
  /\ CleanupReady(j)
  /\ IF cl[Reverse(clients)[cleanupCalls[j].pos]]
          .closeCalls[cleanupCalls[j].cc].pc = "failed"
     THEN /\ cleanupCalls' = [cleanupCalls EXCEPT ![j].pc = "rejected"]
          /\ UNCHANGED cl
     ELSE IF cleanupCalls[j].pos = Len(clients)
          THEN /\ cleanupCalls' = [cleanupCalls EXCEPT ![j].pc = "done"]
               /\ UNCHANGED cl
          ELSE LET c == Reverse(clients)[cleanupCalls[j].pos + 1]
               IN /\ cl' = [cl EXCEPT ![c] = closeStart(@, "cleanup")]
                  /\ cleanupCalls' = [cleanupCalls EXCEPT
                                        ![j].pos = @ + 1,
                                        ![j].cc = Len(cl[c].closeCalls) + 1]
  /\ last' = Label("cleanupContinue", <<"", "">>, j, "", "")
  /\ UNCHANGED <<hostVars, usedToolNames, calls, specs, mainPc, idx, framing,
                 attempts, clients, tools, cleanedUp>>

\* cleanup(): the awaited close() settled (a rejection is logged); next client.
CleanupContinue(j) ==
  /\ j \in DOMAIN cleanupCalls
  /\ CleanupReady(j)
  /\ IF cleanupCalls[j].pos = Len(clients)
     THEN /\ cleanupCalls' = [cleanupCalls EXCEPT ![j].pc = "done"]
          /\ UNCHANGED cl
     ELSE LET c == Reverse(clients)[cleanupCalls[j].pos + 1]
          IN /\ cl' = [cl EXCEPT ![c] = closeStart(@, "cleanup")]
             /\ cleanupCalls' = [cleanupCalls EXCEPT
                                   ![j].pos = @ + 1,
                                   ![j].cc = Len(cl[c].closeCalls) + 1]
  /\ last' = Label("cleanupContinue", <<"", "">>, j, "", "")
  /\ UNCHANGED <<hostVars, usedToolNames, calls, specs, mainPc, idx, framing,
                 attempts, clients, tools, cleanedUp>>

\* ---- specifications ------------------------------------------------------
InitWith(s) ==
  /\ cl = [c \in {s[i] : i \in DOMAIN s} \X Framings |-> NewClient]
  /\ specs = s
  /\ mainPc = IF s = <<>> THEN "returned" ELSE "spawn"
  /\ idx = 1
  /\ framing = "line"
  /\ attempts = <<>>
  /\ clients = <<>>
  /\ tools = <<>>
  /\ usedToolNames = {}
  /\ calls = <<>>
  /\ cleanedUp = FALSE
  /\ cleanupCalls = <<>>
  /\ last = NoLast
  /\ HostIdle

\* The client of a server whose launch succeeded at the first attempt and
\* whose tools/list was answered with the given result.
ReadyClientWith(result) ==
  LET r0 == request([NewClient EXCEPT !.proc = "running"],
                    "initialize", NoParams, "none").r
      r1 == handleJsonRpcMessage(r0, 1, FALSE, "ok")
      r2 == sendNotification(r1, "notifications/initialized").r
      r3 == request(r2, "tools/list", NoParams, "none").r
  IN handleJsonRpcMessage(r3, 2, FALSE, result)

\* The same, with one entry listed.
ReadyClient == ReadyClientWith("one")

\* createEmbeddedMcpTools has returned the handle of one launched server.
InitReady ==
  /\ cl = [c \in {"s1"} \X Framings |->
             IF c = <<"s1", "line">> THEN ReadyClient ELSE NewClient]
  /\ specs = <<"s1">>
  /\ mainPc = "returned"
  /\ idx = 2
  /\ framing = "line"
  /\ attempts = << <<"s1", "line", "running">> >>
  /\ clients = << <<"s1", "line">> >>
  /\ tools = registerTools(NoTools, <<"s1", "line">>, listedTools("one"), 1).tools
  /\ usedToolNames =
       registerTools(NoTools, <<"s1", "line">>, listedTools("one"), 1).usedNames
  /\ calls = <<>>
  /\ cleanedUp = FALSE
  /\ cleanupCalls = <<>>
  /\ last = NoLast
  /\ HostIdle

Discovery ==
  \/ \E out \in {"running", "spawnfail", "throw"} : launchWithFraming(out)
  \/ InitSettled
  \/ CloseFailedDone
  \/ ListSettled

Responses ==
  \E c \in DOMAIN cl : \E i \in {0} \cup IdRange : \E e \in BOOLEAN :
    \E res \in ListResults \cup {"ok"} : Response(c, i, e, res)

Timeouts == \E c \in DOMAIN cl : \E i \in IdRange : Timeout(c, i)

Aborts == \E c \in DOMAIN cl : \E i \in IdRange : Abort(c, i)

Exits == \E c \in DOMAIN cl : \E x \in ExitSuffixes : Exit(c, x)

SpawnErrors == \E c \in DOMAIN cl : SpawnError(c)

CloseSteps ==
  \/ \E c \in DOMAIN cl : \E k \in 1..(MaxDirectCloses + 1) : CloseContinue(c, k)
  \/ \E c \in DOMAIN cl : \E k \in 1..(MaxDirectCloses + 1) :
       \E out \in {"ok", "eperm"} : GraceElapsed1(c, k, out)
  \/ \E c \in DOMAIN cl : \E k \in 1..(MaxDirectCloses + 1) :
       \E out \in {"ok", "eperm"} : GraceElapsed2(c, k, out)

HandleCalls ==
  \/ \E t \in 1..1 : \E a \in {"null", "{}"} :
       \E g \in {"none", "live", "aborted"} : execute(t, a, g)
  \/ cleanup
  \/ \E j \in 1..MaxCleanupCalls : CleanupContinue(j)

\* The handle in use: tool executions, cleanup(), the process and the timers.
Next ==
  \/ Responses
  \/ Timeouts
  \/ Aborts
  \/ Exits
  \/ CloseSteps
  \/ HandleCalls

Spec == InitReady /\ [][Next]_vars

\* The handle in use on a running event loop: an armed timer fires unless it
\* is cleared, and a promise continuation that is ready runs.
SpecLive ==
  /\ InitReady
  /\ [][Next]_vars
  /\ \A c \in {"s1"} \X Framings : \A i \in IdRange : WF_vars(Timeout(c, i))
  /\ WF_vars(CloseSteps)
  /\ WF_vars(\E j \in 1..MaxCleanupCalls : CleanupContinue(j))

\* Discovery of one server, from the spawn of the first attempt on.
NextLaunch ==
  \/ Discovery
  \/ Responses
  \/ Timeouts
  \/ Exits
  \/ SpawnErrors
  \/ CloseSteps

SpecLaunch == InitWith(<<"s1">>) /\ [][NextLaunch]_vars

\* The lifetime of a handle: discovery of one server, then cleanup().
SpecLifetime ==
  InitWith(<<"s1">>)
    /\ [][\/ NextLaunch
          \/ cleanup
          \/ \E j \in 1..MaxCleanupCalls : CleanupContinue(j)]_vars

\* Discovery of two servers, one after the other.  Each server answers a
\* pending request with a result or with an error, or lets the handshake
\* time out; it exits (code 0) only once its client has ended stdin, and it
\* takes every signal.
NextDiscovery ==
  \/ \E out \in {"running", "throw"} : launchWithFraming(out)
  \/ InitSettled
  \/ CloseFailedDone
  \/ ListSettled
  \/ \E c \in DOMAIN cl : \E i \in IdRange : \E e \in BOOLEAN :
       \E res \in {"one", "ok"} :
         i \in cl[c].pending /\ Response(c, i, e, res)
  \/ \E c \in DOMAIN cl : Timeout(c, 1)
  \/ \E c \in DOMAIN cl : cl[c].closed /\ Exit(c, "exit 0")
  \/ \E c \in DOMAIN cl : \E k \in 1..1 : CloseContinue(c, k)
  \/ \E c \in DOMAIN cl : \E k \in 1..1 : GraceElapsed1(c, k, "ok")
  \/ \E c \in DOMAIN cl : \E k \in 1..1 : GraceElapsed2(c, k, "ok")

SpecDiscovery == InitWith(<<"s1", "s2">>) /\ [][NextDiscovery]_vars

\* A launched client whose close() is invoked by any caller, any number of
\* times up to MaxDirectCloses, also while an earlier call is still running.
NextClient ==
  \/ Responses
  \/ Timeouts
  \/ Exits
  \/ CloseSteps
  \/ \E c \in DOMAIN cl : CloseDirect(c)

SpecClient == InitReady /\ [][NextClient]_vars

\* createEmbeddedMcpTools has returned the handle of two launched servers:
\* a listed b_c and two names that differ only beyond the cut of the base
\* name, a_b listed c twice.  mcp_a_b_c is the base name of three of the five.
BridgeListing ==
  [a |-> "long", a_b |-> "twice"]

InitBridge ==
  LET ca == <<"a", "line">>
      cb == <<"a_b", "line">>
      reg == registerTools(
               registerTools(NoTools, ca, listedTools(BridgeListing["a"]), 1),
               cb, listedTools(BridgeListing["a_b"]), 1)
  IN /\ cl = [c \in {"a", "a_b"} \X Framings |->
                IF c[2] = "line" THEN ReadyClientWith(BridgeListing[c[1]])
                ELSE NewClient]
     /\ specs = <<"a", "a_b">>
     /\ mainPc = "returned"
     /\ idx = 3
     /\ framing = "line"
     /\ attempts = << <<"a", "line", "running">>, <<"a_b", "line", "running">> >>
     /\ clients = <<ca, cb>>
     /\ tools = reg.tools
     /\ usedToolNames = reg.usedNames
     /\ calls = <<>>
     /\ cleanedUp = FALSE
     /\ cleanupCalls = <<>>
     /\ last = NoLast
     /\ HostIdle

BridgeCalls ==
  \E t \in 1..5 : \E a \in ArgValues : \E g \in {"none", "live", "aborted"} :
    execute(t, a, g)

\* The bridged tools of two servers in use.
NextBridge ==
  \/ BridgeCalls
  \/ Responses
  \/ Timeouts
  \/ Aborts

SpecBridge == InitBridge /\ [][NextBridge]_vars

\* cleanup() of the handle of two launched servers, while close() is also
\* invoked once, directly, on the client launched last.  Each server answers
\* a pending request with a result or an error and exits (code 0) only once
\* its client has ended stdin; a signal is delivered or fails with EPERM.
NextCleanup ==
  \/ cleanup
  \/ \E j \in 1..MaxCleanupCalls : CleanupContinue(j)
  \/ /\ DirectCloseCount(cl[<<"a_b", "line">>]) = 0
     /\ CloseDirect(<<"a_b", "line">>)
  \/ \E c \in DOMAIN cl : \E i \in IdRange : \E e \in BOOLEAN :
       i \in cl[c].pending /\ Response(c, i, e, "ok")
  \/ \E c \in DOMAIN cl : cl[c].closed /\ Exit(c, "exit 0")
  \/ CloseSteps

SpecCleanup == InitBridge /\ [][NextCleanup]_vars

\* Tool registration on its own: createEmbeddedMcpTools is inside its loop
\* over the listed entries of server specs[idx]; RegisterTool is one
\* iteration for any remote name, NextServer the start of the next server's
\* entries.  The registry starts empty, or as it is after server a_b listed
\* the same name so often that the numeric suffixes are (all but one) taken.
\* One launched server, reached with framing fr, with a tool call waiting for
\* its response (request 3) and a stream of complete frames on its way.
InitFraming ==
  \E fr \in Framings :
    \E stream \in (IF fr = "line" THEN LineStreams ELSE HeaderStreams) :
      LET c == <<"s1", fr>>
          reg == registerTools(NoTools, c, listedTools("one"), 1)
          q == callTool(ReadyClient, reg.tools[1].entry, "{}", "live")
      IN /\ cl = [d \in {"s1"} \X Framings |->
                    IF d = c THEN [q.r EXCEPT !.stdout = stream]
                    ELSE NewClient]
         /\ specs = <<"s1">>
         /\ mainPc = "returned"
         /\ idx = 2
         /\ framing = "line"
         /\ attempts = IF fr = "line"
                       THEN << <<"s1", "line", "running">> >>
                       ELSE << <<"s1", "line", "throw">>,
                               <<"s1", "header", "running">> >>
         /\ clients = <<c>>
         /\ tools = reg.tools
         /\ usedToolNames = reg.usedNames
         /\ calls = <<[t |-> 1, args |-> "{}", id |-> q.id]>>
         /\ cleanedUp = FALSE
         /\ cleanupCalls = <<>>
         /\ last = NoLast
         /\ HostIdle

NextFraming == \E c \in DOMAIN cl : \E n \in 1..MaxChunk : Chunk(c, n)

SpecFraming == InitFraming /\ [][NextFraming]_vars

NameEntries ==
  {Echo, EchoCapital, ToolC, ToolBC, ToolBang, LongTool1, LongTool2}

\* tools and usedToolNames after server c[1] listed the same entry n times
\* (n < SUFFIX_LOOP_END): the base name, then the candidates _2 .. _n.
relisted(c, entry, n) ==
  LET base == baseName(serverName(c[1]), entry)
      name(i) == IF i = 1 THEN base ELSE candidateName(base, i)
  IN [tools |-> [i \in 1..n |-> [c |-> c, entry |-> entry, name |-> name(i)]],
      usedNames |-> {toLowerCase(name(i)) : i \in 1..n},
      branch |-> ""]

InitNames ==
  /\ cl = [c \in {"a", "a_b"} \X Framings |-> NewClient]
  /\ specs = <<"a", "a_b">>
  /\ mainPc = "register"
  /\ framing = "line"
  /\ attempts = <<>>
  /\ clients = <<>>
  /\ calls = <<>>
  /\ cleanedUp = FALSE
  /\ cleanupCalls = <<>>
  /\ last = NoLast
  /\ HostIdle
  /\ \E n \in {0, SUFFIX_LOOP_END - 2, SUFFIX_LOOP_END - 1} :
       /\ idx = IF n = 0 THEN 1 ELSE 2
       /\ tools = relisted(<<"a_b", "line">>, ToolC, n).tools
       /\ usedToolNames = relisted(<<"a_b", "line">>, ToolC, n).usedNames

RegisterTool(entry) ==
  /\ mainPc = "register"
  /\ last.id < MaxEntries
  /\ LET reg == registerTool([tools |-> tools, usedNames |-> usedToolNames,
                              branch |-> ""], cur, entry)
     IN /\ tools' = reg.tools
        /\ usedToolNames' = reg.usedNames
        /\ last' = Label("register", cur, last.id + 1, "", reg.branch)
  /\ UNCHANGED <<hostVars, cl, calls, specs, mainPc, idx, framing, attempts,
                 clients, cleanedUp, cleanupCalls>>

NextServer ==
  /\ mainPc = "register"
  /\ idx < Len(specs)
  /\ idx' = idx + 1
  /\ last' = Label("nextServer", <<specs[idx + 1], framing>>, last.id, "", "")
  /\ UNCHANGED <<hostVars, cl, usedToolNames, calls, specs, mainPc, framing,
                 attempts, clients, tools, cleanedUp, cleanupCalls>>

NextNames ==
  \/ \E entry \in NameEntries : RegisterTool(entry)
  \/ NextServer

SpecNames == InitNames /\ [][NextNames]_vars

\* No snapshot server: createEmbeddedMcpTools returned an empty handle.
McpIdle ==
  /\ cl = <<>>
  /\ specs = <<>>
  /\ mainPc = "returned"
  /\ idx = 1
  /\ framing = "line"
  /\ attempts = <<>>
  /\ clients = <<>>
  /\ tools = <<>>
  /\ usedToolNames = {}
  /\ calls = <<>>
  /\ cleanedUp = FALSE
  /\ cleanupCalls = <<>>
  /\ last = NoLast

\* An env value of a server spec is about to be resolved.  The value is made
\* of three pieces (placeholders, a placeholder that is not closed, the
\* characters of a placeholder alone, other text, nothing); in process.env
\* nothing is set, or A, or A with the text of a placeholder and B_1, or a
\* variable named toString.
InitEnvValue ==
  LET pieces ==
        {<<>>,
         <<"$", "{", "A", "}">>,
         <<"$", "{", "B", "_", "1", "}">>,
         <<"$", "{", "t", "o", "S", "t", "r", "i", "n", "g", "}">>,
         <<"$", "{", "A">>,
         <<"$", "{", "1", "}">>,
         <<"$">>,
         <<"{">>,
         <<"}">>,
         <<"A">>,
         <<" ", "b">>}
      environments ==
        {<<>>,
         (<<"A">> :> <<"x">>),
         (<<"A">> :> <<"$", "{", "B", "_", "1", "}">>) @@ (<<"B", "_", "1">> :> <<"y">>),
         (<<"t", "o", "S", "t", "r", "i", "n", "g">> :> <<"s">>)}
  IN /\ McpIdle
     /\ cfg = [otherSkills |-> FALSE, mcpServers |-> <<>>]
     /\ temporal = NoTemporal
     /\ \E env \in environments : \E p1 \in pieces, p2 \in pieces, p3 \in pieces :
          applied = [fn |-> "",
                     arg |-> [env |-> env, value |-> p1 \o p2 \o p3],
                     out |-> <<>>]

ResolveEnvValue ==
  /\ applied.fn = ""
  /\ applied' = [applied EXCEPT
                   !.fn = "resolveMcpEnvValue",
                   !.out = resolveMcpEnvValue(applied.arg.value, applied.arg.env)]
  /\ UNCHANGED <<mcpVars, cfg, temporal>>

SpecEnvValue == InitEnvValue /\ [][ResolveEnvValue]_vars

\* A server name or remote tool name is about to be normalised: any string
\* of up to MaxSegment characters out of an upper-case letter, a lower-case
\* letter, a digit, the underscore, a hyphen and a space.
InitSegment ==
  /\ McpIdle
  /\ cfg = [otherSkills |-> FALSE, mcpServers |-> <<>>]
  /\ temporal = NoTemporal
  /\ \E n \in 0..MaxSegment : \E value \in [1..n -> {"A", "b", "7", "_", "-", " "}] :
       applied = [fn |-> "", arg |-> value, out |-> <<>>]

NormalizeSegment ==
  /\ applied.fn = ""
  /\ applied' = [applied EXCEPT
                   !.fn = "normalizeMcpToolNameSegment",
                   !.out = normalizeMcpToolNameSegment(applied.arg)]
  /\ UNCHANGED <<mcpVars, cfg, temporal>>

SpecSegment == InitSegment /\ [][NormalizeSegment]_vars

\* A snapshot is about to be resolved.  The names of its records: " a", "a",
\* "b", a blank string, a number; the commands: "x", " y", an empty string,
\* a number; args and env are absent, or hold entries to trim, to drop and
\* to resolve; one record is not a plain object.
InitSnapshot ==
  LET str(text) == [isString |-> TRUE, text |-> text]
      number == [isString |-> FALSE, text |-> <<>>]
      names == {str(<<" ", "a">>), str(<<"a">>), str(<<"b">>), str(<<" ">>),
                number}
      bare == {[plain |-> TRUE, name |-> n, command |-> c, args |-> <<>>,
                env |-> <<>>] :
                 n \in names, c \in {str(<<"x">>), str(<<" ", "y">>), str(<<>>),
                                      number}}
      full == {[plain |-> TRUE, name |-> n, command |-> str(<<"x">>),
                args |-> <<str(<<" ", "p", " ">>), number, str(<<" ">>)>>,
                env |-> << <<<<" ", "K">>, str(<<"$", "{", "A", "}">>)>>,
                           <<<<" ">>, str(<<"v">>)>>,
                           <<<<"N">>, number>> >>] :
                 n \in names}
      other == {[plain |-> FALSE, name |-> str(<<"a">>),
                 command |-> str(<<"x">>), args |-> <<>>, env |-> <<>>]}
      raw == bare \cup full \cup other
  IN /\ McpIdle
     /\ cfg = [otherSkills |-> FALSE, mcpServers |-> <<>>]
     /\ temporal = NoTemporal
     /\ \E n \in 0..MaxRecords : \E mcpServers \in [1..n -> raw] :
          applied = [fn |-> "",
                     arg |-> [env |-> (<<"A">> :> <<"x">>),
                              mcpServers |-> mcpServers],
                     out |-> <<>>]

ResolveSnapshot ==
  /\ applied.fn = ""
  /\ applied' = [applied EXCEPT
                   !.fn = "resolveSnapshotMcpServers",
                   !.out = resolveSnapshotMcpServers(
                             applied.arg.mcpServers,
                             Len(applied.arg.mcpServers), applied.arg.env)]
  /\ UNCHANGED <<mcpVars, cfg, temporal>>

SpecSnapshot == InitSnapshot /\ [][ResolveSnapshot]_vars

\* connect(opts) returned a client; the cluster has no workflow yet.
InitTemporal ==
  /\ McpIdle
  /\ cfg = [otherSkills |-> FALSE, mcpServers |-> <<>>]
  /\ applied = [fn |-> "", arg |-> <<>>, out |-> <<>>]
  /\ \E taskQueue \in {"openclaw-tasks", "custom-queue"} :
       temporal = [taskQueue |-> taskQueue, runs |-> <<>>]

SpecTemporal ==
  InitTemporal
    /\ [][\E agentId \in {"main", "ops", "dev"} :
            \E intervalMs \in {1000, 60000} :
              \E error \in UNION {StartErrors[kind] :
                                    kind \in DOMAIN StartErrors} :
                startHeartbeatWorkflow(agentId, intervalMs, error)]_vars

\* A config file with or without other skills settings and, for each of the
\* names x and y, no override or one of: disable-only, disabled with a
\* command, enabled with a command, args and env, a command without the
\* enabled key.
InitCli ==
  LET overrides ==
        {[enabled |-> "false", command |-> "", args |-> <<>>, env |-> <<>>],
         [enabled |-> "false", command |-> "npx", args |-> <<>>,
          env |-> <<>>],
         [enabled |-> "true", command |-> "npx", args |-> <<"srv">>,
          env |-> (<<"K">> :> <<"v">>)],
         [enabled |-> "absent", command |-> "npx", args |-> <<>>,
          env |-> <<>>]}
      names == {<<"x">>, <<"y">>}
  IN /\ McpIdle
     /\ temporal = NoTemporal
     /\ applied = [fn |-> "", arg |-> <<>>, out |-> <<>>]
     /\ \E otherSkills \in BOOLEAN : \E present \in SUBSET names :
          \E mcpServers \in [present -> overrides] :
            cfg = [otherSkills |-> otherSkills, mcpServers |-> mcpServers]

SpecCli ==
  InitCli
    /\ [][\E rawName \in {<<"x">>, <<" ", "y">>, <<" ">>} :
            \E valid \in BOOLEAN :
              \/ McpStop(rawName, valid)
              \/ \E active \in BOOLEAN : McpStart(rawName, valid, active)]_vars

\* ---- properties -----------------------------------------------------------
CountOps(r, op, method) ==
  Cardinality({i \in DOMAIN r.childOps :
                 r.childOps[i].op = op /\ r.childOps[i].method = method})

Writes(r) == {i \in DOMAIN r.childOps : r.childOps[i].op = "write"}

Settled(r, o) == {i \in IdRange : r.reqs[i].outcome = o}

\* C1: when the process exits or emits 'error' (a failed spawn, a failed
\* kill) while N requests are pending, the handler rejects all N with the
\* process-terminated / process-error error carrying the exit code or signal
\* or the error's cause, disarms their timers and leaves the pending table
\* empty.
C1_PendingDrained ==
  [][\A c \in DOMAIN cl :
       (last'.c = c /\ (last'.op \in {"exit", "error"} \/ last'.in = "eperm"))
       => /\ cl'[c].pending = {}
          /\ \A i \in cl[c].pending :
               /\ cl'[c].reqs[i].outcome =
                    IF last'.op = "exit" THEN "terminated" ELSE "procError"
               /\ cl'[c].reqs[i].ctx =
                    IF last'.op = "exit" THEN last'.in
                    ELSE IF last'.op = "error" THEN "spawn" ELSE "kill"
               /\ i \notin cl'[c].timers]_vars

C1_Witness ==
  /\ last.op = "exit"
  /\ Cardinality(Settled(cl[last.c], "terminated")) >= 2

\* C2: a response with id k settles exactly the pending request k, in
\* whatever order responses arrive; every other pending request stays
\* pending, unsettled and with its timer armed.
C2_ResponseSettlesItsRequest ==
  [][\A c \in DOMAIN cl :
       (last'.op = "response" /\ last'.c = c /\ last'.id \in cl[c].pending)
       => LET k == last'.id
          IN /\ cl'[c].reqs[k].outcome \in {"resolved", "remoteError"}
             /\ cl'[c].pending = cl[c].pending \ {k}
             /\ \A j \in cl[c].pending \ {k} :
                  /\ cl'[c].reqs[j] = cl[c].reqs[j]
                  /\ cl'[c].reqs[j].outcome = "waiting"
                  /\ j \in cl'[c].timers]_vars

\* A response overtook an older tool call, which is still pending.
C2_Witness ==
  /\ last.op = "response"
  /\ last.res = "matched"
  /\ \E j \in cl[last.c].pending :
       j < last.id /\ cl[last.c].reqs[j].method = "tools/call"

\* C3: a close() that ran to its end on a process that is still alive (it
\* ignored shutdown, exit, stdin EOF and SIGTERM) has sent SIGKILL.
C3_SigkillDelivered ==
  \A c \in DOMAIN cl : \A k \in DOMAIN cl[c].closeCalls :
    (cl[c].closeCalls[k].pc = "done" /\ ~cl[c].closeCalls[k].noop
       /\ cl[c].proc = "running")
    => CountOps(cl[c], "kill", "SIGKILL") >= 1

\* C4: of several close() calls on one client only the first acts: at most
\* one shutdown request and one exit notification are written, stdin is
\* ended at most once and each signal is sent at most once.
C4_SecondCloseNoop ==
  \A c \in DOMAIN cl :
    /\ CountOps(cl[c], "write", "shutdown") <= 1
    /\ CountOps(cl[c], "write", "exit") <= 1
    /\ CountOps(cl[c], "end", "") <= 1
    /\ CountOps(cl[c], "kill", "SIGTERM") <= 1
    /\ CountOps(cl[c], "kill", "SIGKILL") <= 1

\* C5: however often cleanup() is invoked, also while an earlier call is
\* still running, close() is started at most once per launched client, and
\* the client's process gets at most one shutdown request, exit
\* notification, stdin end and signal of each kind.
C5_CleanupClosesOnce ==
  \A c \in DOMAIN cl :
    /\ Cardinality({k \in DOMAIN cl[c].closeCalls :
                      cl[c].closeCalls[k].by = "cleanup"}) <= 1
    /\ CountOps(cl[c], "write", "shutdown") <= 1
    /\ CountOps(cl[c], "write", "exit") <= 1
    /\ CountOps(cl[c], "end", "") <= 1
    /\ CountOps(cl[c], "kill", "SIGTERM") <= 1
    /\ CountOps(cl[c], "kill", "SIGKILL") <= 1

\* A second cleanup() returned while the first still awaits the shutdown.
C5_Witness ==
  /\ Len(cleanupCalls) = 2
  /\ cleanupCalls[1].pc = "closing"
  /\ cleanupCalls[2].pc = "noop"
  /\ \E c \in DOMAIN cl : CountOps(cl[c], "write", "shutdown") = 1

\* Attempt n of the launch failed: spawn threw, or initialize was rejected.
AttemptFailed(n) ==
  \/ attempts[n][3] = "throw"
  \/ cl[<<attempts[n][1], attempts[n][2]>>].reqs[1].outcome
       \in {"remoteError", "timeout", "terminated", "procError"}

\* C6: launch() makes at most two attempts, the first with line framing; a
\* second attempt exists only if the first failed, uses header framing and
\* a process of its own, and is made whenever the first failed; when both
\* fail no client is returned and no third process is spawned.
C6_AtMostTwoAttempts ==
  /\ Len(attempts) <= 2
  /\ Len(attempts) >= 1 => attempts[1][2] = "line"
  /\ Len(attempts) = 2 =>
       /\ attempts[2][2] = "header"
       /\ AttemptFailed(1)
       /\ <<"s1", "line">> \notin {clients[i] : i \in DOMAIN clients}
       /\ attempts[2][3] # "throw" =>
            cl[<<"s1", "header">>].childOps[1] = WriteOp("initialize", 1, NoParams)
  /\ mainPc = "returned" =>
       /\ AttemptFailed(1) <=> Len(attempts) = 2
       /\ (Len(attempts) = 2 /\ AttemptFailed(2)) => clients = <<>>

\* Both attempts spawned a process and both handshakes failed.
C6_Witness ==
  /\ mainPc = "returned"
  /\ Len(attempts) = 2
  /\ attempts[1][3] = "running"
  /\ attempts[2][3] = "running"
  /\ clients = <<>>

\* C7: when the timeout of request k fires, k is rejected with the timeout
\* error naming its method and leaves the pending table; no other request
\* and no other entry or timer changes.
C7_TimeoutRejectsAndRemoves ==
  [][\A c \in DOMAIN cl :
       (last'.op = "timeout" /\ last'.c = c)
       => LET k == last'.id
          IN /\ cl'[c].reqs[k].outcome = "timeout"
             /\ cl'[c].reqs[k].ctx = cl[c].reqs[k].method
             /\ cl'[c].pending = cl[c].pending \ {k}
             /\ cl'[c].timers = cl[c].timers \ {k}
             /\ \A j \in IdRange \ {k} : cl'[c].reqs[j] = cl[c].reqs[j]]_vars

\* A request timed out while another one is still pending.
C7_Witness ==
  /\ last.op = "timeout"
  /\ cl[last.c].reqs[last.id].outcome = "timeout"
  /\ cl[last.c].reqs[last.id].ctx = "tools/call"
  /\ cl[last.c].pending # {}

\* C8: aborting the signal of a pending request k removes entry k only,
\* clears its timer, rejects it with the cancellation error naming its
\* method and writes nothing to the process; every other request, entry and
\* timer is unchanged.
C8_AbortRemovesOnlyItsEntry ==
  [][\A c \in DOMAIN cl :
       (last'.op = "abort" /\ last'.c = c /\ last'.id \in cl[c].pending)
       => LET k == last'.id
          IN /\ cl'[c].reqs[k].outcome = "aborted"
             /\ cl'[c].reqs[k].ctx = cl[c].reqs[k].method
             /\ cl'[c].pending = cl[c].pending \ {k}
             /\ cl'[c].timers = cl[c].timers \ {k}
             /\ cl'[c].childOps = cl[c].childOps
             /\ \A j \in IdRange \ {k} : cl'[c].reqs[j] = cl[c].reqs[j]]_vars

\* A request was cancelled while another one is still pending.
C8_Witness ==
  /\ last.op = "abort"
  /\ cl[last.c].reqs[last.id].outcome = "aborted"
  /\ cl[last.c].pending # {}

\* C9: a tool call whose signal is already aborted, made on a client that is
\* not closed, is rejected at once with the cancellation error naming its
\* method: nothing is written, the pending table is as before and holds no
\* entry for it, and no timer of it is armed.
C9_AbortedSignalRejectsUnsent ==
  [][\A c \in DOMAIN cl :
       (last'.op = "execute" /\ last'.c = c /\ last'.in = "aborted"
          /\ ~cl[c].closed)
       => LET k == last'.id
          IN /\ last'.res = "aborted"
             /\ k = cl[c].nextRequestId
             /\ cl'[c].reqs[k].outcome = "aborted"
             /\ cl'[c].reqs[k].ctx = "tools/call"
             /\ cl'[c].childOps = cl[c].childOps
             /\ cl'[c].pending = cl[c].pending
             /\ k \notin cl'[c].pending
             /\ k \notin cl'[c].timers
             /\ k \notin cl'[c].listeners]_vars

\* A pre-aborted call was rejected while another request is in flight.
C9_Witness ==
  /\ last.op = "execute"
  /\ last.in = "aborted"
  /\ last.res = "aborted"
  /\ cl[last.c].pending # {}

\* C10: on a closed client nothing is written to the process any more, no
\* pending entry is added and no request id is taken; a tool execution is
\* rejected with the closed error and changes nothing, and the exit
\* notification of a close() that was overtaken by the exit is rejected.
C10_ClosedRejectsEverything ==
  [][\A c \in DOMAIN cl :
       cl[c].closed
       => /\ Writes(cl'[c]) = Writes(cl[c])
          /\ cl'[c].pending \subseteq cl[c].pending
          /\ cl'[c].nextRequestId = cl[c].nextRequestId
          /\ (last'.op = "execute" /\ last'.c = c /\ last'.res # "badargs")
               => (last'.res = "closed" /\ cl'[c] = cl[c])
          /\ (last'.op = "closeContinue" /\ last'.c = c)
               => last'.res = "exitRejected"]_vars

\* A tool execution was rejected after cleanup() closed its client while the
\* process is still running.
C10_Witness ==
  /\ last.op = "execute"
  /\ last.res = "closed"
  /\ cleanedUp
  /\ cl[last.c].proc = "running"

\* The ids of the requests a client has issued so far.
Issued(r) == {i \in IdRange : r.reqs[i].outcome # "unissued"}

\* C11: on each client request ids are handed out 1, 2, 3, ... in call
\* order, initialize taking id 1: the ids in use are exactly those below the
\* counter, every pending id is among them, the requests written to the
\* process carry strictly increasing ids, and a step that issues a request
\* gives it the counter's value, advances the counter by one and leaves
\* every earlier request as it was issued.
C11_IdsInCallOrder ==
  /\ [](\A c \in DOMAIN cl :
          LET r == cl[c]
          IN /\ Issued(r) = 1..(r.nextRequestId - 1)
             /\ r.pending \subseteq Issued(r)
             /\ 1 \in Issued(r) => r.reqs[1].method = "initialize"
             /\ \A i, j \in Writes(r) :
                  (i < j /\ r.childOps[i].id # 0 /\ r.childOps[j].id # 0)
                  => r.childOps[i].id < r.childOps[j].id)
  /\ [][\A c \in DOMAIN cl :
          LET n == cl[c].nextRequestId
          IN /\ cl'[c].nextRequestId \in {n, n + 1}
             /\ cl'[c].nextRequestId = n + 1 =>
                  /\ cl[c].reqs[n].outcome = "unissued"
                  /\ cl'[c].reqs[n].outcome # "unissued"
             /\ \A i \in Issued(cl[c]) :
                  /\ cl'[c].reqs[i].method = cl[c].reqs[i].method
                  /\ cl'[c].reqs[i].arg = cl[c].reqs[i].arg]_vars

\* The shutdown request of close() took id 4 while tool call 3 is pending.
C11_Witness ==
  \E c \in DOMAIN cl :
    /\ cl[c].nextRequestId = 5
    /\ cl[c].reqs[3].method = "tools/call"
    /\ 3 \in cl[c].pending
    /\ cl[c].reqs[4].method = "shutdown"

\* C15: executing a bridged tool with a payload that is not a plain object
\* fails before any request is made: on no client is a request id taken,
\* anything written to the process, or the pending table, a timer or a
\* request changed.
C15_BadArgsFailFast ==
  [][(last'.op = "execute" /\ last'.res = "badargs")
       => /\ calls' = calls
          /\ \A c \in DOMAIN cl :
               /\ cl'[c].nextRequestId = cl[c].nextRequestId
               /\ cl'[c].childOps = cl[c].childOps
               /\ cl'[c].pending = cl[c].pending
               /\ cl'[c].timers = cl[c].timers
               /\ cl'[c].reqs = cl[c].reqs]_vars

\* The payload was rejected on an open client with a request in flight.
C15_Witness ==
  /\ last.op = "execute"
  /\ last.res = "badargs"
  /\ ~cl[last.c].closed
  /\ cl[last.c].pending # {}

\* C12: the local names of the registered tools are pairwise distinct when
\* compared case-insensitively, however many entries share a base name.
C12_NamesDistinct ==
  Cardinality({toLowerCase(tools[t].name) : t \in DOMAIN tools}) = Len(tools)

\* C13: every local tool name, whether it is the base name, carries a
\* numeric suffix or the fallback suffix, has at most 64 characters.
C13_NameAtMost64 ==
  \A t \in DOMAIN tools : Len(tools[t].name) <= MCP_TOOL_NAME_MAX_LENGTH

\* The fallback name was returned after the last numeric suffix, _9999, had
\* been given to the entry before; two names of 64 characters, one of them
\* with a numeric suffix, were registered earlier.
C13_Witness ==
  /\ last.op = "register"
  /\ last.res = "fallback"
  /\ Len(tools) = SUFFIX_LOOP_END
  /\ tools[Len(tools)].name = fallbackName(baseName(serverName("a_b"), ToolC))
  /\ tools[Len(tools) - 1].name =
       candidateName(baseName(serverName("a_b"), ToolC), SUFFIX_LOOP_END - 1)

\* The server and the remote name of the entry the t-th tool of SpecBridge
\* was built from: the entries of a in listed order, then those of a_b.
BridgeEntry(t) ==
  LET na == Len(listedTools(BridgeListing["a"]))
  IN IF t <= na
     THEN [server |-> "a", name |-> listedTools(BridgeListing["a"])[t]]
     ELSE [server |-> "a_b", name |-> listedTools(BridgeListing["a_b"])[t - na]]

\* C14: executing the tool built from entry n of server S appends exactly one
\* write to the process of S's client, the tools/call request with the
\* remote name n and the arguments supplied, and changes no other client;
\* when that request is resolved the execution returns the envelope with
\* status ok, S's name, n and the remote result -- whatever local name the
\* tool was given.
C14_CallsOriginalTool ==
  /\ [][(last'.op = "execute" /\ last'.res = "sent")
         => LET call == calls'[Len(calls')]
                c == <<BridgeEntry(call.t).server, "line">>
            IN /\ Len(calls') = Len(calls) + 1
               /\ last'.c = c
               /\ cl'[c].childOps =
                    Append(cl[c].childOps,
                           WriteOp("tools/call", call.id,
                                   [name |-> BridgeEntry(call.t).name,
                                    arguments |-> call.args]))
               /\ \A d \in DOMAIN cl \ {c} : cl'[d] = cl[d]]_vars
  /\ [](\A k \in DOMAIN calls :
          LET c == <<BridgeEntry(calls[k].t).server, "line">>
              q == cl[c].reqs[calls[k].id]
          IN q.outcome = "resolved"
             => executeResult(k) =
                  [status |-> "ok",
                   server |-> serverName(BridgeEntry(calls[k].t).server),
                   tool |-> BridgeEntry(calls[k].t).name,
                   result |-> q.result])

\* The tool named with a cut base and the suffix _2 was executed and its
\* call resolved, after a call of the other server's suffixed tool.
C14_Witness ==
  /\ Len(calls) = 2
  /\ calls[1].t = 5
  /\ tools[5].name = candidateName(baseName(serverName("a_b"), ToolC), 3)
  /\ calls[2].t = 3
  /\ Len(tools[3].name) = MCP_TOOL_NAME_MAX_LENGTH
  /\ tools[3].name = candidateName(baseName(serverName("a"), LongTool2), 2)
  /\ calls[2].args = "{k:1}"
  /\ executeResult(2).status = "ok"

\* The launched client of server s whose tools/list request was resolved
\* (none: the launch or the listing failed).
ListedClients(s) ==
  {c \in {clients[i] : i \in DOMAIN clients} :
     /\ c[1] = s
     /\ ListId(cl[c]) # 0
     /\ cl[c].reqs[ListId(cl[c])].outcome = "resolved"}

\* C16: createEmbeddedMcpTools never rejects, and once the loop is past a
\* server that server was attempted and its share of the tools array is
\* empty if its launch (spawn or handshake, under both framings) or its
\* tools/list failed, and otherwise holds exactly the entries it listed,
\* bound to its client -- whatever happened to the other server.
C16_FailureIsolated ==
  /\ mainPc # "rejected"
  /\ mainPc = "returned" <=> idx = Len(specs) + 1
  /\ \A i \in 1..(idx - 1) :
       LET s == specs[i]
           share == SelectSeq(tools, LAMBDA t : t.c[1] = s)
       IN /\ \E n \in DOMAIN attempts : attempts[n][1] = s
          /\ IF ListedClients(s) = {}
             THEN share = <<>>
             ELSE LET c == CHOOSE c \in ListedClients(s) : TRUE
                      entries == listedTools(cl[c].reqs[ListId(cl[c])].result)
                  IN /\ Cardinality(ListedClients(s)) = 1
                     /\ Len(share) = Len(entries)
                     /\ \A e \in DOMAIN entries :
                          share[e].c = c /\ share[e].entry = entries[e]

\* Both handshakes of s1 failed, one by its timeout and one by an error
\* response; s2 was launched at its second attempt and its tool registered.
C16_Witness ==
  /\ mainPc = "returned"
  /\ Len(attempts) = 4
  /\ cl[<<"s1", "line">>].reqs[1].outcome = "timeout"
  /\ cl[<<"s1", "header">>].reqs[1].outcome = "remoteError"
  /\ clients = << <<"s2", "header">> >>
  /\ Len(tools) = 1
  /\ tools[1].c = <<"s2", "header">>
  /\ tools[1].entry = Echo

\* C17: discovery of a server does not wait for a failing server: while a
\* server has a failed launch attempt and its discovery is still going on
\* (a second attempt, a handshake timeout or the close() of a failed client
\* may be outstanding), the launch of every other server has been started
\* already or can be started now.
C17_NoWaitForFailingServer ==
  \A i, j \in DOMAIN specs :
    (/\ i # j
     /\ idx = i
     /\ mainPc # "returned"
     /\ \E n \in DOMAIN attempts : attempts[n][1] = specs[i] /\ AttemptFailed(n))
    => \/ \E m \in DOMAIN attempts : attempts[m][1] = specs[j]
       \/ mainPc = "spawn" /\ idx = j

\* The close() calls that cleanup() made on client c.
CleanupCloses(c) ==
  {k \in DOMAIN cl[c].closeCalls : cl[c].closeCalls[k].by = "cleanup"}

\* C18: cleanup() closes the launched clients last-launched first and one at
\* a time: whenever it has called close() on the client launched i-th, its
\* close() of every client launched later has already settled; at most one
\* of its close() calls is unsettled; and when it is done it has closed
\* every launched client.
C18_ReverseOrderOneAtATime ==
  /\ \A i, j \in DOMAIN clients :
       (i < j /\ CleanupCloses(clients[i]) # {})
       => \E k \in CleanupCloses(clients[j]) : CloseSettled(cl[clients[j]], k)
  /\ Cardinality({ck \in {clients[i] : i \in DOMAIN clients}
                            \X (1..(MaxDirectCloses + 1)) :
                    /\ ck[2] \in CleanupCloses(ck[1])
                    /\ ~CloseSettled(cl[ck[1]], ck[2])}) <= 1
  /\ \A n \in DOMAIN cleanupCalls :
       cleanupCalls[n].pc = "done"
       => \A i \in DOMAIN clients :
            \E k \in CleanupCloses(clients[i]) : CloseSettled(cl[clients[i]], k)

\* cleanup() has just called close() on the client launched first, after its
\* close() of the client launched second went through both grace waits.
C18_Witness ==
  /\ last.op = "cleanupContinue"
  /\ Len(clients) = 2
  /\ \E k \in CleanupCloses(clients[1]) :
       cl[clients[1]].closeCalls[k].pc = "shutdown"
  /\ \E k \in CleanupCloses(clients[2]) :
       cl[clients[2]].closeCalls[k].pc = "done"
  /\ CountOps(cl[clients[2]], "kill", "SIGTERM") >= 1

\* C19: a close() that fails during cleanup() does not stop it: cleanup()
\* never rejects, and when it is done it has called close() on every launched
\* client and each of these calls has settled, by returning or by failing.
C19_CleanupSurvivesCloseFailure ==
  \A n \in DOMAIN cleanupCalls :
    /\ cleanupCalls[n].pc # "rejected"
    /\ cleanupCalls[n].pc \in {"closing", "done"}
         => \A i \in DOMAIN clients :
              (\/ cleanupCalls[n].pc = "done"
               \/ i > Len(clients) + 1 - cleanupCalls[n].pos)
              => \E k \in CleanupCloses(clients[i]) :
                   CloseSettled(cl[clients[i]], k)

\* cleanup() is done although its close() of the client launched last
\* failed; its close() of the client launched first returned.
C19_Witness ==
  /\ Len(clients) = 2
  /\ \E n \in DOMAIN cleanupCalls : cleanupCalls[n].pc = "done"
  /\ \E k \in CleanupCloses(clients[2]) :
       cl[clients[2]].closeCalls[k].pc = "failed"
  /\ \E k \in CleanupCloses(clients[1]) :
       cl[clients[1]].closeCalls[k].pc = "done"

\* C20: however the stream is cut into chunks, the messages decoded so far
\* and the bytes left in the buffer are those of one drain of all the bytes
\* delivered so far, and once a stream of complete frames is delivered the
\* buffer is empty.
C20_ChunkingInvariant ==
  \A c \in DOMAIN cl :
    LET r == cl[c]
        whole == drainMessages(c[2], SubSeq(r.stdout, 1, r.stdoutRead))
    IN /\ r.received = whole.messages
       /\ r.stdoutBuffer = whole.rest
       /\ r.stdoutRead = Len(r.stdout) => r.stdoutBuffer = <<>>

\* The two header frames were delivered, the last chunk starting inside the
\* two-byte character of the second body, and both messages were decoded.
C20_Witness ==
  LET r == cl[<<"s1", "header">>]
  IN /\ last.op = "chunk"
     /\ last.id = 2
     /\ Len(r.received) = 2
     /\ r.stdoutRead = Len(r.stdout)
     /\ r.stdout[Len(r.stdout) - 1] = "A9"
     /\ r.received[2].json = JsonString
     /\ r.reqs[3].outcome = "resolved"

\* C21: resolveMcpEnvValue replaces every ${IDENT} by the value of the
\* environment variable IDENT, by nothing when IDENT is not set, and keeps
\* the text outside the placeholders: the result is what the environment
\* with every unset name set to the empty string gives, and a value without
\* a placeholder is returned as it is.
C21_UnsetIsEmpty ==
  applied.fn = "resolveMcpEnvValue" =>
    LET env == applied.arg.env
        value == applied.arg.value
        unsetAsEmpty == env @@ [n \in InheritedNames |-> <<>>]
        placeholders == {i \in 1..Len(value) :
                           matchEnvVar(SubSeq(value, i, Len(value))) # 0}
    IN /\ applied.out = resolveMcpEnvValue(value, unsetAsEmpty)
       /\ placeholders = {} => applied.out = value

\* C22: resolveSnapshotMcpServers returns one spec per trimmed name of the
\* valid records (plain objects whose name and command are non-empty strings
\* after trimming), and the spec of a name is that of the last valid record
\* with this name; the other records change nothing.
C22_LastValidRecordWins ==
  applied.fn = "resolveSnapshotMcpServers" =>
    LET raw == applied.arg.mcpServers
        out == applied.out
        text(v) == IF v.isString THEN trim(v.text) ELSE <<>>
        valid == {i \in 1..Len(raw) :
                    raw[i].plain /\ text(raw[i].name) # <<>>
                                /\ text(raw[i].command) # <<>>}
        carrying(name) == {i \in valid : text(raw[i].name) = name}
    IN /\ {out[k].name : k \in 1..Len(out)} = {text(raw[i].name) : i \in valid}
       /\ \A j, k \in 1..Len(out) : out[j].name = out[k].name => j = k
       /\ \A k \in 1..Len(out) :
            LET lastValid == CHOOSE i \in carrying(out[k].name) :
                               \A j \in carrying(out[k].name) : j <= i
            IN /\ out[k].command = text(raw[lastValid].command)
               /\ out[k] = normalizeServerSpec(raw[lastValid], applied.arg.env)

\* Two valid records named a with different commands, then a record named a
\* without a command: the snapshot resolves to the second record alone.
C22_Witness ==
  /\ applied.fn = "resolveSnapshotMcpServers"
  /\ Len(applied.arg.mcpServers) = 3
  /\ LET raw == applied.arg.mcpServers
     IN /\ raw[1].plain /\ raw[1].name.text = <<" ", "a">>
                        /\ raw[1].command.text = <<"x">>
        /\ raw[2].plain /\ raw[2].name.text = <<"a">>
                        /\ raw[2].command.text = <<" ", "y">>
        /\ raw[3].plain /\ raw[3].name.text = <<"a">>
                        /\ raw[3].command = [isString |-> TRUE, text |-> <<>>]
  /\ Len(applied.out) = 1
  /\ applied.out[1].command = <<"y">>

\* C23: startHeartbeatWorkflow starts the workflow heartbeat-<agentId> on
\* the client's task queue; when the start is refused because the workflow
\* is already started the call returns the handle of that workflow and
\* starts nothing, so an id never has two executions; any other error of the
\* start is thrown to the caller.
C23_AlreadyStartedIsSuccess ==
  /\ [](\A id \in DOMAIN temporal.runs :
          /\ Len(temporal.runs[id]) = 1
          /\ temporal.runs[id][1].taskQueue = temporal.taskQueue
          /\ id = "heartbeat-" \o temporal.runs[id][1].args[1])
  /\ [][applied'.fn = "startHeartbeatWorkflow" /\ applied' # applied =>
         LET id == "heartbeat-" \o applied'.arg.agentId
             out == applied'.out
         IN CASE out.start = "started" ->
                   /\ ~applied'.arg.running
                   /\ id \notin DOMAIN temporal.runs
                   /\ temporal'.runs[id][1].args
                        = <<applied'.arg.agentId, applied'.arg.intervalMs>>
                   /\ out.status = "returned" /\ out.value = id
              [] out.start = "WorkflowExecutionAlreadyStartedError" ->
                   /\ temporal' = temporal
                   /\ out.status = "returned" /\ out.value = id
              [] OTHER ->
                   /\ temporal' = temporal
                   /\ out.status = "thrown" /\ out.value = out.start]_vars

\* A second start for agent main, refused because the workflow is already
\* started, returned the handle of the workflow the first start created,
\* while agent ops has a workflow of its own.
C23_Witness ==
  /\ applied.fn = "startHeartbeatWorkflow"
  /\ applied.arg.agentId = "main"
  /\ applied.arg.running
  /\ applied.out = [start |-> "WorkflowExecutionAlreadyStartedError",
                    status |-> "returned", value |-> "heartbeat-main"]
  /\ "heartbeat-main" \in DOMAIN temporal.runs
  /\ "heartbeat-ops" \in DOMAIN temporal.runs

\* C24: `mcp stop <name>` leaves the override of the name with enabled =
\* false, created when absent and with its command, args and env kept;
\* `mcp start <name>` deletes an override that is disable-only and sets
\* enabled = true on any other, keeping its other fields; the overrides of
\* the other names stay as they are.
C24_StopThenStart ==
  [][applied'.out = "ok" =>
       LET name == trim(applied'.arg)
           before == cfg.mcpServers
           after == cfg'.mcpServers
           absent == [enabled |-> "absent", command |-> "", args |-> <<>>,
                      env |-> <<>>]
           old == IF name \in DOMAIN before THEN before[name] ELSE absent
           disableOnly == old = [absent EXCEPT !.enabled = "false"]
       IN /\ \A n \in (DOMAIN before \cup DOMAIN after) \ {name} :
               n \in DOMAIN before /\ n \in DOMAIN after
                                   /\ after[n] = before[n]
          /\ applied'.fn = "mcp stop" =>
               /\ name \in DOMAIN after
               /\ after[name] = [old EXCEPT !.enabled = "false"]
          /\ applied'.fn = "mcp start" =>
               IF disableOnly
               THEN name \notin DOMAIN after
               ELSE /\ name \in DOMAIN after
                    /\ after[name] = [old EXCEPT !.enabled = "true"]]_vars

\* C25: the 'error' event of the process closes the transport: from that
\* event on closed is set, and a request() issued afterwards is refused by
\* the closed check, so that it takes no id, is not registered and nothing
\* is written.
C25_ErrorEventCloses ==
  /\ [](\A c \in DOMAIN cl :
         (\E i \in IdRange : cl[c].reqs[i].outcome = "procError")
           => cl[c].closed)
  /\ [][\A c \in DOMAIN cl :
          (\E i \in IdRange : cl[c].reqs[i].outcome = "procError") =>
            /\ cl'[c].nextRequestId = cl[c].nextRequestId
            /\ Writes(cl'[c]) = Writes(cl[c])]_vars

\* C26: whatever is written to a process besides the initialize request
\* (request 1) is written after that request was resolved, and, except the
\* initialized notification itself, after that notification was written.
C26_HandshakeFirst ==
  \A c \in DOMAIN cl :
    \A i \in Writes(cl[c]) :
      cl[c].childOps[i].method # "initialize" =>
        /\ cl[c].reqs[1].method = "initialize"
        /\ cl[c].reqs[1].outcome = "resolved"
        /\ cl[c].childOps[i].method # "notifications/initialized" =>
             \E j \in 1..(i - 1) :
               cl[c].childOps[j] = WriteOp("notifications/initialized", 0,
                                           NoParams)

\* C27: close() calls child.kill, with SIGTERM or SIGKILL, only on a process
\* that has not exited.
C27_NoSignalAfterExit ==
  [][\A c \in DOMAIN cl :
       CountOps(cl'[c], "kill", "SIGTERM") + CountOps(cl'[c], "kill", "SIGKILL")
         > CountOps(cl[c], "kill", "SIGTERM") + CountOps(cl[c], "kill", "SIGKILL")
       => cl[c].proc = "running"]_vars

\* C28: the steps of a close() on an open transport come in the order:
\* shutdown request written and settled, exit notification, stdin.end(),
\* first grace wait, SIGTERM, second grace wait, SIGKILL; and once the
\* shutdown request is settled, however it ended, stdin is ended and the
\* transport is closed.
C28_CloseStepsInOrder ==
  \A c \in DOMAIN cl :
    LET r == cl[c]
        rank(o) == CASE o.op = "write" /\ o.method = "shutdown" -> 1
                     [] o.op = "write" /\ o.method = "exit" -> 2
                     [] o.op = "end" -> 3
                     [] o.op = "kill" /\ o.method = "SIGTERM" -> 4
                     [] o.op = "kill" /\ o.method = "SIGKILL" -> 5
                     [] OTHER -> 0
        steps == {i \in DOMAIN r.childOps : rank(r.childOps[i]) > 0}
    IN /\ \A i, j \in steps :
            i < j => rank(r.childOps[i]) < rank(r.childOps[j])
       /\ \A k \in DOMAIN r.closeCalls :
            LET call == r.closeCalls[k]
            IN ~call.noop =>
                 /\ call.pc = "shutdown" =>
                      \A i \in steps : rank(r.childOps[i]) = 1
                 /\ call.pc # "shutdown" =>
                      /\ call.id # 0 => r.reqs[call.id].outcome # "waiting"
                      /\ \E i \in steps : r.childOps[i] = EndOp
                      /\ r.closed
                 /\ call.pc = "grace1" =>
                      \A i \in steps : rank(r.childOps[i]) <= 3
                 /\ call.pc = "grace2" =>
                      \A i \in steps : rank(r.childOps[i]) <= 4

\* A close() whose shutdown request timed out went on to the exit
\* notification, stdin.end() and, after the first grace window, SIGTERM.
C28_Witness ==
  \E c \in DOMAIN cl :
    /\ \E k \in DOMAIN cl[c].closeCalls :
         /\ cl[c].closeCalls[k].pc = "grace2"
         /\ cl[c].closeCalls[k].id # 0
         /\ cl[c].reqs[cl[c].closeCalls[k].id].outcome = "timeout"
    /\ \E i, j, m \in DOMAIN cl[c].childOps :
         /\ i < j /\ j < m
         /\ cl[c].childOps[i].op = "write" /\ cl[c].childOps[i].method = "exit"
         /\ cl[c].childOps[j] = EndOp
         /\ cl[c].childOps[m] = KillOp("SIGTERM", TRUE)

\* C29: the first response with the id of the pending request 3 settles
\* it: a response that carries an error field rejects it, a response without
\* one resolves it with the result field; the entry is removed and its timer
\* and abort listener are cleared.
C29_ErrorFieldRejects ==
  \A c \in DOMAIN cl :
    LET r == cl[c]
        matching == {k \in DOMAIN r.received : r.received[k].id = 3}
        message == r.received[CHOOSE k \in matching :
                                \A j \in matching : k <= j]
        hasError == \E i \in 1..(Len(message.json) - 6) :
                      SubSeq(message.json, i, i + 6)
                        = <<"\"", "e", "r", "r", "o", "r", "\"">>
    IN matching # {} =>
         /\ 3 \notin r.pending \cup r.timers \cup r.listeners
         /\ IF hasError
            THEN r.reqs[3].outcome = "remoteError"
            ELSE /\ r.reqs[3].outcome = "resolved"
                 /\ r.reqs[3].result = message.result

\* C30: a request whose write to the process fails is rejected with the
\* send failure and leaves nothing behind: the pending table, the timers and
\* the abort listeners are what they were before the request() call, and
\* nothing was written to the child.  Checked on every request a step
\* issues and, for every reachable client whose stdin is not writable, on
\* the request() call a caller could make next.
C30_FailedSendLeavesNoEntry ==
  /\ [](\A c \in DOMAIN cl : \A sig \in {"none", "live"} :
         LET r == cl[c]
             q == request(r, "tools/call", NoParams, sig)
         IN (r.nextRequestId \in IdRange /\ q.res = "sendFailed") =>
              /\ q.r.reqs[q.id].outcome = "sendFailed"
              /\ q.r.reqs[q.id].ctx = "tools/call"
              /\ q.r.pending = r.pending
              /\ q.r.timers = r.timers
              /\ q.r.listeners = r.listeners
              /\ q.r.childOps = r.childOps)
  /\ [][\A c \in DOMAIN cl \cap DOMAIN cl' : \A i \in IdRange :
          (cl[c].reqs[i].outcome = "unissued"
             /\ cl'[c].reqs[i].outcome = "sendFailed") =>
            /\ cl'[c].reqs[i].ctx = cl'[c].reqs[i].method
            /\ cl'[c].pending = cl[c].pending
            /\ cl'[c].timers = cl[c].timers
            /\ cl'[c].listeners = cl[c].listeners
            /\ \A k \in DOMAIN cl'[c].childOps :
                 cl'[c].childOps[k].id # i]_vars

\* A client that failed to spawn has had its shutdown request refused by
\* sendMessage while the closed flag was not yet set.
C30_Witness ==
  \E c \in DOMAIN cl : \E i \in IdRange :
    /\ cl[c].reqs[i].outcome = "sendFailed"
    /\ cl[c].reqs[i].method = "shutdown"
    /\ cl[c].stdinDestroyed
    /\ i \notin cl[c].pending

\* C31: in header framing the buffer never keeps a terminated header block
\* that has no Content-Length: the block is dropped with its terminator.
\* Once a stream that starts with such a block is read, the client has been
\* handed exactly the messages of the frames after the block, however the
\* bytes were chunked.
C31_MalformedHeaderSkipped ==
  \A c \in DOMAIN cl :
    LET r == cl[c]
        headerEnd == indexOf(r.stdoutBuffer, HeaderEndMark)
        blockEnd == indexOf(r.stdout, HeaderEndMark)
        block == toStringUtf8(subarray(r.stdout, 0, blockEnd), 1)
        after == drainHeaderDelimitedMessages(
                   subarray(r.stdout, blockEnd + 4, Len(r.stdout)), <<>>)
    IN c[2] = "header" =>
         /\ headerEnd >= 0 =>
              matchContentLength(
                toStringUtf8(subarray(r.stdoutBuffer, 0, headerEnd), 1))
                # <<>>
         /\ (/\ blockEnd >= 0
             /\ matchContentLength(block) = <<>>
             /\ r.stdoutRead = Len(r.stdout)) =>
              /\ r.received = after.messages
              /\ r.received # <<>>
              /\ r.stdoutBuffer = <<>>
              /\ r.reqs[3].outcome # "waiting"

\* A stream that begins with two blocks without a length has been read and
\* the response of the frame behind them has settled request 3.
C31_Witness ==
  \E c \in DOMAIN cl :
    LET r == cl[c]
        blockEnd == indexOf(r.stdout, HeaderEndMark)
    IN /\ c[2] = "header"
       /\ blockEnd >= 0
       /\ matchContentLength(
            toStringUtf8(subarray(r.stdout, 0, blockEnd), 1)) = <<>>
       /\ r.stdout[1] = "C"
       /\ r.stdoutRead = Len(r.stdout)
       /\ r.reqs[3].outcome = "resolved"
       /\ 3 \notin r.pending

\* C32: a frame whose payload is not JSON, and a blank line, reach no
\* request: as long as no parsed message was handed over, the tool call is
\* waiting with its entry, timer and listener in place, and the transport
\* is never closed by what it reads.  The frames behind such a frame are
\* delivered: once the stream is read, the buffer is empty and the response
\* has settled the call.
C32_BadPayloadDropped ==
  \A c \in DOMAIN cl :
    LET r == cl[c]
    IN r.stdout # <<>> =>
         /\ ~r.closed
         /\ r.proc = "running"
         /\ \A k \in DOMAIN r.received : r.received[k].ok
         /\ r.received = <<>> =>
              /\ r.reqs[3].outcome = "waiting"
              /\ 3 \in r.pending \cap r.timers \cap r.listeners
         /\ r.stdoutRead = Len(r.stdout) =>
              /\ r.stdoutBuffer = <<>>
              /\ r.reqs[3].outcome # "waiting"
              /\ \E k \in DOMAIN r.received : r.received[k].id = 3

\* The line "{" was dropped and the response on the next line resolved the
\* tool call.
C32_Witness ==
  \E c \in DOMAIN cl :
    LET r == cl[c]
    IN /\ c[2] = "line"
       /\ Len(r.stdout) > 2
       /\ SubSeq(r.stdout, 1, 2) = <<"{", LF>>
       /\ r.stdoutRead = Len(r.stdout)
       /\ Len(r.received) = 1
       /\ r.reqs[3].outcome = "resolved"

\* C33 as stated: the result is the lower-cased name with every run of
\* characters outside [a-z0-9_] replaced by one underscore and the leading
\* and trailing underscores stripped ("tool" when nothing is left); the
\* underscores inside the name are those of the name.
C33_UnderscoresKept ==
  applied.fn = "normalizeMcpToolNameSegment" =>
    applied.out = normalizeMcpToolNameSegment_noCollapse(applied.arg)

\* C33, amended: the result is "tool" when the name has no letter or digit;
\* otherwise it is made of the name's letters and digits, lower-cased and in
\* order, with exactly one underscore between two of them that were not
\* adjacent in the name, whatever separated them (underscores included),
\* and nothing before the first or after the last.
C33_SeparatorsCollapsed ==
  applied.fn = "normalizeMcpToolNameSegment" =>
    LET low == toLowerCase(applied.arg)
        out == applied.out
        alnum(ch) == ch \in segmentChars \ {"_"}
        at(text) == {p \in 1..Len(text) : alnum(text[p])}
        nth(S, k) == CHOOSE p \in S : Cardinality({q \in S : q <= p}) = k
        n == Cardinality(at(low))
    IN IF n = 0
       THEN out = <<"t", "o", "o", "l">>
       ELSE /\ Cardinality(at(out)) = n
            /\ \A p \in 1..Len(out) : alnum(out[p]) \/ out[p] = "_"
            /\ nth(at(out), 1) = 1
            /\ nth(at(out), n) = Len(out)
            /\ \A k \in 1..n : out[nth(at(out), k)] = low[nth(at(low), k)]
            /\ \A k \in 1..(n - 1) :
                 nth(at(out), k + 1) - nth(at(out), k)
                   = IF nth(at(low), k + 1) - nth(at(low), k) > 1
                     THEN 2 ELSE 1

\* A name with two underscores between its letters was normalised to a name
\* with one.
C33_Witness ==
  /\ applied.fn = "normalizeMcpToolNameSegment"
  /\ applied.arg = <<"A", "_", "_", "b">>
  /\ applied.out = <<"a", "_", "b">>

\* C34: a request has one outcome.  A request that is out of the pending
\* table has been settled, a settled request keeps its outcome, error text
\* and result in every later step, and an event that arrives for a request
\* no longer pending (a late or duplicate response, an abort after the
\* timeout, an exit or error with nothing pending) leaves the pending table
\* as it is.
C34_SettledOnce ==
  /\ [](\A c \in DOMAIN cl : \A i \in IdRange :
         (cl[c].reqs[i].outcome = "waiting") => i \in cl[c].pending)
  /\ [][\A c \in DOMAIN cl : \A i \in IdRange :
          /\ cl[c].reqs[i].outcome \notin {"unissued", "waiting"} =>
               cl'[c].reqs[i] = cl[c].reqs[i]
          /\ (/\ last'.c = c
              /\ last'.id = i
              /\ last'.op \in {"abort", "timeout"}
              /\ i \notin cl[c].pending) =>
               cl'[c].pending = cl[c].pending
          /\ (last'.c = c /\ last'.op = "response"
                /\ last'.res = "ignored") =>
               /\ cl'[c].pending = cl[c].pending
               /\ cl'[c].reqs = cl[c].reqs
          /\ (last'.c = c /\ last'.op \in {"exit", "error"}) =>
               cl'[c].pending = {}]_vars

\* The caller's signal fired after the request had timed out: the abort
\* handler ran and the request is still the timed-out one.
C34_Witness ==
  /\ last.op = "abort"
  /\ last.c \in DOMAIN cl
  /\ last.id \in IdRange
  /\ cl[last.c].reqs[last.id].outcome = "timeout"
  /\ last.id \notin cl[last.c].listeners

\* C35: the pending table of a client holds exactly the ids of its requests
\* that are waiting for their outcome; each of them was written to the
\* process and has its timeout timer armed, and the id of a settled request
\* is not in the table.
C35_PendingIsUnsettled ==
  \A c \in DOMAIN cl :
    LET r == cl[c]
    IN /\ r.pending = {i \in IdRange : r.reqs[i].outcome = "waiting"}
       /\ r.pending \subseteq r.timers
       /\ \A i \in r.pending :
            \E k \in DOMAIN r.childOps :
              /\ r.childOps[k].op = "write"
              /\ r.childOps[k].id = i
              /\ r.childOps[k].method = r.reqs[i].method

\* The tool call has been settled and is out of the table while the
\* shutdown request of close() is in it.
C35_Witness ==
  \E c \in DOMAIN cl : \E i \in IdRange : \E j \in IdRange :
    /\ cl[c].reqs[i].method = "tools/call"
    /\ cl[c].reqs[i].outcome \in {"resolved", "remoteError", "timeout", "aborted"}
    /\ cl[c].reqs[j].method = "shutdown"
    /\ cl[c].pending = {j}

\* C36: every request that waits for its outcome is eventually settled,
\* whatever the server and the caller do or leave undone.
C36_EventuallySettled ==
  \A c \in {"s1"} \X Framings : \A i \in IdRange :
    (cl[c].reqs[i].outcome = "waiting")
      ~> (cl[c].reqs[i].outcome \notin {"unissued", "waiting"})

\* The tool call of a server that is running, was never closed and wrote
\* nothing has been rejected by its timer, and nothing is pending.
C36_Witness ==
  /\ last.op = "timeout"
  /\ cl[last.c].reqs[last.id].outcome = "timeout"
  /\ cl[last.c].reqs[last.id].method = "tools/call"
  /\ cl[last.c].proc = "running"
  /\ ~cl[last.c].closed
  /\ cl[last.c].pending = {}
  /\ cl[last.c].timers = {}

\* C37: a message without a numeric id, or with an id that is not in the
\* pending table, changes nothing of its client: the table, the timers and
\* listeners, every request's outcome, the closed flag and what was written
\* to the process are as before.
C37_UnmatchedIgnored ==
  [][\A c \in DOMAIN cl :
       (last'.op = "response" /\ last'.c = c /\ last'.res = "ignored") =>
         /\ cl'[c].pending = cl[c].pending
         /\ cl'[c].timers = cl[c].timers
         /\ cl'[c].listeners = cl[c].listeners
         /\ cl'[c].reqs = cl[c].reqs
         /\ cl'[c].closed = cl[c].closed
         /\ cl'[c].childOps = cl[c].childOps
         /\ cl'[c].proc = cl[c].proc]_vars

\* A message that matched nothing arrived while the tool call was pending,
\* and the tool call is still waiting.
C37_Witness ==
  /\ last.op = "response"
  /\ last.res = "ignored"
  /\ \E i \in cl[last.c].pending :
       /\ cl[last.c].reqs[i].method = "tools/call"
       /\ cl[last.c].reqs[i].outcome = "waiting"

\* C38: once close() has been invoked on a client, no tools/call or
\* tools/list request is written to its process: nothing of the kind follows
\* the shutdown request in what the client wrote.
C38_NoRequestAfterClose ==
  \A c \in DOMAIN cl :
    \A j \in DOMAIN cl[c].childOps : \A k \in DOMAIN cl[c].childOps :
      (/\ j < k
       /\ cl[c].childOps[j].op = "write"
       /\ cl[c].childOps[j].method = "shutdown") =>
        ~(/\ cl[c].childOps[k].op = "write"
          /\ cl[c].childOps[k].method \in {"tools/call", "tools/list"})

\* C39: close() is invoked at most once on the client of a spawned process.
\* A client whose handshake failed is not among the handle's clients and has
\* had its close() call from the launch attempt; a client among the handle's
\* clients has none before cleanup() and, once cleanup() is done, exactly
\* the one cleanup() made.
C39_ClosedExactlyOnce ==
  \A c \in DOMAIN cl :
    LET r == cl[c]
        launched == \E n \in DOMAIN clients : clients[n] = c
        inHandshake == mainPc = "init" /\ cur = c
    IN r.proc # "none" =>
         /\ Len(r.closeCalls) <= 1
         /\ (~launched /\ ~inHandshake) =>
              /\ Len(r.closeCalls) = 1
              /\ r.closeCalls[1].by = "launch"
         /\ (launched /\ ~cleanedUp) => r.closeCalls = <<>>
         /\ (launched /\ \E j \in DOMAIN cleanupCalls :
                           cleanupCalls[j].pc = "done") =>
              /\ Len(r.closeCalls) = 1
              /\ r.closeCalls[1].by = "cleanup"
              /\ CloseSettled(r, 1)

\* The line attempt's process failed its handshake and was closed by the
\* launch attempt, the header attempt's process listed no usable tool and was
\* closed by cleanup(), and cleanup() was called a second time.
C39_Witness ==
  /\ clients = << <<"s1", "header">> >>
  /\ tools = <<>>
  /\ Len(cleanupCalls) = 2
  /\ cleanupCalls[1].pc = "done"
  /\ cl[<<"s1", "line">>].proc # "none"
  /\ Len(cl[<<"s1", "line">>].closeCalls) = 1
  /\ Len(cl[<<"s1", "header">>].closeCalls) = 1
  /\ cl[<<"s1", "header">>].closeCalls[1].by = "cleanup"

\* C40: of the two attempts' processes of a server at most one is alive:
\* when the header attempt's process exists, the line attempt's process has
\* terminated.
C40_OneProcessAlive ==
  \A n \in DOMAIN specs :
    cl[<<specs[n], "header">>].proc = "running" =>
      cl[<<specs[n], "line">>].proc # "running"

====
